---- MODULE Spec2Model ----
(***************************************************************************)
(* slack-term: the synchronisation / caching service layer.               *)
(*                                                                         *)
(*   service/ratelimit.go   RateLimiter (token bucket, mutex, sleep)       *)
(*   service/slack.go       SlackService.GetUserName, UserCache,           *)
(*                          GetChannels                                    *)
(*                                                                         *)
(* Every goroutine that calls into the service is a caller p \in Procs.    *)
(* pc[p] is the statement the caller is positioned at (about to execute). *)
(* A callee returns to the position its caller recorded (wret, gret).      *)
(***************************************************************************)
EXTENDS Integers, Sequences, FiniteSets, TLC

\* ------------------------------------------------------------------ bounds
NumCallers == 2
MaxTokens == 2
MaxRefill == 2
MaxClock == 2
MaxCalls == 3
MaxLookups == 2
MaxLoads == 2
MaxKeys == 3
MaxEvents == 2
\* pieces a text is put together from
MaxPieces == 3

Procs == 1..NumCallers

VARIABLES
    \* the monotonic clock reading time.Now() gives (ticks)
    clock,
    \* RateLimiter fields
    tokens, maxTokens, refillRate, lastRefill, mu,
    \* per caller: position, Wait's locals, the end of its sleep, return position
    pc, now, tokensToAdd, wakeAt, wret,
    \* observation: Wait calls begun, Wait calls returned, sleeps begun
    started, admitted, sleeps,
    \* SlackService.UserCache (the in-process map), PersistentCache # nil, and the
    \* rows of the durable table users
    UserCache, PersistentCache, users,
    \* per caller of GetUserName: its argument, the value of its local `user`,
    \* its return position and what it returned
    userID, user, gret, ret,
    \* observation: the ids some call has returned for, and whether a call began
    \* after another call for its id had returned
    completed, after,
    \* the runtime killed the process (fatal error: concurrent map access)
    crashed,
    \* the conversations the remote service holds, as the pages it answers with
    remote,
    \* SlackService.Conversations
    Conversations,
    \* per caller of GetChannels: its argument, its locals slackChans and nextCur,
    \* the loop position and the buckets of getSortedChannels, what it returned
    includePublic, slackChans, nextCur, idx, buckets, chret,
    \* per caller: the keepOnlyIsMember argument its getSortedChannels call has
    keepOnlyIsMember,
    \* Config.IsEnterprise: the entry point the program loads conversations by
    IsEnterprise,
    \* observation: GetChannels calls begun, and per caller the page whose
    \* request failed in its last call (0: none)
    loads, failedAt,
    \* SlackService.ThreadCache
    ThreadCache,
    \* what the remote service holds of the channel GetMessages reads: the page of
    \* its history, newest first
    history,
    \* per caller of GetMessages: the loop position and the locals messages and
    \* threads, the CreateMessage calls in progress (innermost last), the locals
    \* of CreateMessageFromReplies, and what GetMessages returned
    hpos, messages, threads, frames, rmsgs, rcur, rpos, replies, mret,
    \* observation: GetMessages calls begun; the Wait and GetUserName calls the
    \* run may begin
    mloads, quota,
    \* log.Fatal ended the process
    exited,
    \* the model of the program (bubbletea): the fields of m in Update; and its runtime:
    \* the commands running, the message of the last Update and the commands it
    \* returned, the program ended by tea.Quit or by a panic, keys and events so far
    model, prog,
    \* a parseMessage call: Config.Emoji, its argument, msg as it stands, the
    \* position in the function and the stages run so far
    text

limVars == <<tokens, maxTokens, refillRate, lastRefill, mu>>
waitLocals == <<now, tokensToAdd, wakeAt, wret>>
obsVars == <<started, admitted, sleeps>>
idVars == <<UserCache, PersistentCache, users, userID, user, gret, ret,
           completed, after, crashed>>
chVars == <<remote, Conversations, includePublic, slackChans, nextCur, idx,
           buckets, chret, keepOnlyIsMember, IsEnterprise, loads, failedAt>>
msgVars == <<ThreadCache, history, hpos, messages, threads, frames, rmsgs, rcur,
            rpos, replies, mret, mloads, quota, exited>>
uiVars == <<model, prog>>
txtVars == <<text>>
vars == <<clock, limVars, pc, waitLocals, obsVars, idVars, chVars, msgVars, uiVars,
          txtVars>>

\* -------------------------------------------------------------- RateLimiter

\* NewRateLimiter(maxTokens, refillRate): a full bucket, lastRefill = time.Now()
NewRateLimiter(n, r) ==
    /\ tokens = n
    /\ maxTokens = n
    /\ refillRate = r
    /\ lastRefill = clock
    /\ mu = 0

\* r.mu.Lock(); now := time.Now(); elapsed := now.Sub(r.lastRefill);
\* tokensToAdd := int(elapsed / r.refillRate);
\* if tokensToAdd > 0 { r.tokens += tokensToAdd ...
WaitLock(p) ==
    /\ pc[p] = "w_lock"
    /\ mu = 0
    /\ mu' = p
    /\ LET add == (clock - lastRefill) \div refillRate IN
        /\ now' = [now EXCEPT ![p] = clock]
        /\ tokensToAdd' = [tokensToAdd EXCEPT ![p] = add]
        /\ tokens' = IF add > 0 THEN tokens + add ELSE tokens
        /\ pc' = [pc EXCEPT ![p] = IF add > 0 THEN "w_cap" ELSE "w_check"]
    /\ UNCHANGED <<clock, maxTokens, refillRate, lastRefill, wakeAt, wret, obsVars>>

\* the cap when the refill overshoots: the mutant forgets it
WaitCapNoCap(p) ==
    /\ pc[p] = "w_cap"
    /\ lastRefill' = now[p]
    /\ pc' = [pc EXCEPT ![p] = "w_check"]
    /\ UNCHANGED <<clock, tokens, maxTokens, refillRate, mu, waitLocals, obsVars>>

\* if r.tokens > r.maxTokens { r.tokens = r.maxTokens }; r.lastRefill = now
WaitCap(p) ==
    /\ pc[p] = "w_cap"
    /\ tokens' = IF tokens > maxTokens THEN maxTokens ELSE tokens
    /\ lastRefill' = now[p]
    /\ pc' = [pc EXCEPT ![p] = "w_check"]
    /\ UNCHANGED <<clock, maxTokens, refillRate, mu, waitLocals, obsVars>>

\* the mutant takes a token from an empty bucket instead of sleeping
WaitCheckNoSleep(p) ==
    /\ pc[p] = "w_check"
    /\ pc' = [pc EXCEPT ![p] = "w_take"]
    /\ UNCHANGED <<clock, limVars, waitLocals, obsVars>>

\* the mutant keeps the mutex while it sleeps
WaitCheckKeepLock(p) ==
    /\ pc[p] = "w_check"
    /\ IF tokens <= 0
       THEN /\ wakeAt' = [wakeAt EXCEPT ![p] = clock + refillRate]
            /\ sleeps' = sleeps + 1
            /\ pc' = [pc EXCEPT ![p] = "w_sleep"]
            /\ UNCHANGED <<mu, started, admitted>>
       ELSE /\ pc' = [pc EXCEPT ![p] = "w_take"]
            /\ UNCHANGED <<mu, wakeAt, obsVars>>
    /\ UNCHANGED <<clock, tokens, maxTokens, refillRate, lastRefill, now, tokensToAdd, wret>>

\* if r.tokens <= 0 { waitTime := r.refillRate; r.mu.Unlock(); time.Sleep(waitTime) ...
WaitCheck(p) ==
    /\ pc[p] = "w_check"
    /\ IF tokens <= 0
       THEN /\ mu' = 0
            /\ wakeAt' = [wakeAt EXCEPT ![p] = clock + refillRate]
            /\ sleeps' = sleeps + 1
            /\ pc' = [pc EXCEPT ![p] = "w_sleep"]
            /\ UNCHANGED <<started, admitted>>
       ELSE /\ pc' = [pc EXCEPT ![p] = "w_take"]
            /\ UNCHANGED <<mu, wakeAt, obsVars>>
    /\ UNCHANGED <<clock, tokens, maxTokens, refillRate, lastRefill, now, tokensToAdd, wret>>

\* time.Sleep(waitTime) returns once at least waitTime has passed
WaitWake(p) ==
    /\ pc[p] = "w_sleep"
    /\ clock >= wakeAt[p]
    /\ pc' = [pc EXCEPT ![p] = "w_relock"]
    /\ UNCHANGED <<clock, limVars, waitLocals, obsVars>>

\* the mutant sets the tokens after the sleep without taking the mutex again
WaitRelockNoLock(p) ==
    /\ pc[p] = "w_relock"
    /\ tokens' = 1
    /\ lastRefill' = clock
    /\ pc' = [pc EXCEPT ![p] = "w_take"]
    /\ UNCHANGED <<clock, maxTokens, refillRate, mu, waitLocals, obsVars>>

\* r.mu.Lock() after the sleep; r.tokens = 1; r.lastRefill = time.Now()
WaitRelock(p) ==
    /\ pc[p] = "w_relock"
    /\ mu = 0
    /\ mu' = p
    /\ tokens' = 1
    /\ lastRefill' = clock
    /\ pc' = [pc EXCEPT ![p] = "w_take"]
    /\ UNCHANGED <<clock, maxTokens, refillRate, waitLocals, obsVars>>

\* r.tokens--; the deferred r.mu.Unlock(); return
WaitTake(p) ==
    /\ pc[p] = "w_take"
    /\ tokens' = tokens - 1
    /\ mu' = 0
    /\ admitted' = admitted + 1
    /\ pc' = [pc EXCEPT ![p] = wret[p]]
    /\ now' = [now EXCEPT ![p] = 0]
    /\ tokensToAdd' = [tokensToAdd EXCEPT ![p] = 0]
    /\ wakeAt' = [wakeAt EXCEPT ![p] = 0]
    /\ wret' = [wret EXCEPT ![p] = "idle"]
    /\ UNCHANGED <<clock, maxTokens, refillRate, lastRefill, started, sleeps>>

\* a caller enters r.Wait(), to come back at position `back`
EnterWait(p, back) ==
    /\ started < quota.calls
    /\ started' = started + 1
    /\ pc' = [pc EXCEPT ![p] = "w_lock"]
    /\ wret' = [wret EXCEPT ![p] = back]

\* a goroutine calls RateLimiter.Wait directly
CallWait(p) ==
    /\ pc[p] = "idle"
    /\ EnterWait(p, "idle")
    /\ UNCHANGED <<clock, limVars, now, tokensToAdd, wakeAt, admitted, sleeps>>

\* a sleeper's deadline is still ahead
Sleeping == \E p \in Procs : pc[p] = "w_sleep" /\ clock < wakeAt[p]

\* time passes
Tick ==
    /\ clock < MaxClock \/ Sleeping
    /\ clock' = clock + 1
    /\ UNCHANGED <<limVars, pc, waitLocals, obsVars>>

WaitStep(p) ==
    \/ WaitLock(p)
    \/ WaitCap(p)
    \/ WaitCheck(p)
    \/ WaitWake(p)
    \/ WaitRelock(p)
    \/ WaitTake(p)

InitCallers ==
    /\ pc = [p \in Procs |-> "idle"]
    /\ now = [p \in Procs |-> 0]
    /\ tokensToAdd = [p \in Procs |-> 0]
    /\ wakeAt = [p \in Procs |-> 0]
    /\ wret = [p \in Procs |-> "idle"]
    /\ started = 0
    /\ admitted = 0
    /\ sleeps = 0

\* ------------------------------------------------------------ Identity cache

\* rateLimiter := NewRateLimiter(20, time.Second)
BucketSize == 20

\* Cache expires after 7 days (seconds)
TTL == 7 * 24 * 60 * 60

\* the wall clock at process start: late enough for a row of the table to be stale
BootUnix == TTL + 1

\* time.Now().Unix(): the service's limiter refills once per second
\* (NewRateLimiter(20, time.Second)), so a tick of the clock is a second
unixNow == BootUnix + clock

UserIDs == {"U1", "U999"}

\* the remote user directory: U999 is unknown to it
Directory == [u \in {"U1"} |-> "alice"]

\* names a row written by an earlier run of the program may carry
EarlierName == [u \in UserIDs |-> IF u = "U1" THEN "al" ELSE "zed"]

NoUser == [ok |-> FALSE, ID |-> "", Name |-> ""]
NoRet == [name |-> "", err |-> FALSE]

\* m[k] = v on a Go map
MapSet(m, k, v) == [x \in (DOMAIN m) \cup {k} |-> IF x = k THEN v ELSE m[x]]

\* the mutant expires a row that is exactly TTL old
GetOffByOne(id) ==
    IF id \notin DOMAIN users
    THEN [username |-> "", ok |-> FALSE]
    ELSE IF unixNow - users[id].updated_at >= TTL
         THEN [username |-> "", ok |-> FALSE]
         ELSE [username |-> users[id].username, ok |-> TRUE]

\* UserCache.Get: SELECT username, updated_at ... ; no row, or a row older than the
\* TTL, is ("", false)
Get(id) ==
    IF id \notin DOMAIN users
    THEN [username |-> "", ok |-> FALSE]
    ELSE IF unixNow - users[id].updated_at > TTL
         THEN [username |-> "", ok |-> FALSE]
         ELSE [username |-> users[id].username, ok |-> TRUE]

\* the mutant stamps the row with the zero time
SetNoTimestamp(id, username) ==
    MapSet(users, id, [username |-> username, updated_at |-> 0])

\* UserCache.Set: INSERT OR REPLACE ... VALUES (userID, username, time.Now().Unix())
Set(id, username) ==
    MapSet(users, id, [username |-> username, updated_at |-> unixNow])

\* s.Client.GetUserInfo(userID): the directory's record, or an error
GetUserInfo(id) ==
    {NoUser} \cup
    (IF id \in DOMAIN Directory
     THEN {[ok |-> TRUE, ID |-> id, Name |-> Directory[id]]}
     ELSE {})

\* a GetUserName that answers a failed lookup with no name
NoPlaceholder(id) == ""

\* fmt.Sprintf("unknown (%s)", userID)
Placeholder(id) == "unknown (" \o id \o ")"

\* return (name, err) from GetUserName
Return(p, name, err) ==
    /\ pc' = [pc EXCEPT ![p] = gret[p]]
    /\ ret' = [ret EXCEPT ![p] = [name |-> name, err |-> err]]
    /\ user' = [user EXCEPT ![p] = NoUser]
    /\ completed' = completed \cup {userID[p]}
    /\ after' = [after EXCEPT ![p] = FALSE]
    /\ UNCHANGED <<userID, gret>>

\* calls that have not reached the limiter yet
BeforeWait == {q \in Procs : pc[q] \in {"g_mem", "g_persist"}}

\* a caller enters GetUserName(id), to come back at position `back`
EnterGetUserName(p, id, back) ==
    /\ started + Cardinality(BeforeWait) < quota.lookups
    /\ pc' = [pc EXCEPT ![p] = "g_mem"]
    /\ userID' = [userID EXCEPT ![p] = id]
    /\ gret' = [gret EXCEPT ![p] = back]
    /\ ret' = [ret EXCEPT ![p] = NoRet]
    /\ user' = [user EXCEPT ![p] = NoUser]
    /\ after' = [after EXCEPT ![p] = id \in completed]

\* a goroutine calls GetUserName
CallGetUserName(p) ==
    /\ pc[p] = "idle"
    /\ \E id \in UserIDs : EnterGetUserName(p, id, "idle")
    /\ UNCHANGED <<clock, limVars, waitLocals, obsVars>>
    /\ UNCHANGED <<UserCache, PersistentCache, users, completed, crashed>>

\* if s.RateLimiter != nil { s.RateLimiter.Wait() }: on to the remote lookup
ToRemote(p) ==
    /\ EnterWait(p, "g_remote")
    /\ UNCHANGED <<clock, limVars, now, tokensToAdd, wakeAt, admitted, sleeps>>

\* the mutant skips the in-process map and always asks the next tier
GMemNoShortCircuit(p) ==
    /\ pc[p] = "g_mem"
    /\ IF PersistentCache
       THEN /\ pc' = [pc EXCEPT ![p] = "g_persist"]
            /\ UNCHANGED <<clock, limVars, waitLocals, obsVars>>
       ELSE ToRemote(p)
    /\ UNCHANGED <<userID, user, gret, ret, completed, after>>
    /\ UNCHANGED <<UserCache, PersistentCache, users, crashed>>

\* if user, ok := s.UserCache[userID]; ok { return user, nil }
\* if s.PersistentCache != nil { ...
GMem(p) ==
    /\ pc[p] = "g_mem"
    /\ IF userID[p] \in DOMAIN UserCache
       THEN /\ Return(p, UserCache[userID[p]], FALSE)
            /\ UNCHANGED <<clock, limVars, waitLocals, obsVars>>
       ELSE /\ IF PersistentCache
               THEN /\ pc' = [pc EXCEPT ![p] = "g_persist"]
                    /\ UNCHANGED <<clock, limVars, waitLocals, obsVars>>
               ELSE ToRemote(p)
            /\ UNCHANGED <<userID, user, gret, ret, completed, after>>
    /\ UNCHANGED <<UserCache, PersistentCache, users, crashed>>

\* if user, ok := s.PersistentCache.Get(userID); ok {
GPersist(p) ==
    /\ pc[p] = "g_persist"
    /\ LET g == Get(userID[p]) IN
        IF g.ok
        THEN /\ user' = [user EXCEPT ![p] = [ok |-> TRUE, ID |-> userID[p], Name |-> g.username]]
             /\ pc' = [pc EXCEPT ![p] = "g_fill"]
             /\ UNCHANGED <<clock, limVars, waitLocals, obsVars>>
        ELSE /\ ToRemote(p)
             /\ UNCHANGED user
    /\ UNCHANGED <<UserCache, PersistentCache, users, userID, gret, ret,
                   completed, after, crashed>>

\* s.UserCache[userID] = user; return user, nil
GFill(p) ==
    /\ pc[p] = "g_fill"
    /\ UserCache' = MapSet(UserCache, userID[p], user[p].Name)
    /\ Return(p, user[p].Name, FALSE)
    /\ UNCHANGED <<clock, limVars, waitLocals, obsVars>>
    /\ UNCHANGED <<PersistentCache, users, crashed>>

\* user, err := s.Client.GetUserInfo(userID)
GRemote(p) ==
    /\ pc[p] = "g_remote"
    /\ \E u \in GetUserInfo(userID[p]) : user' = [user EXCEPT ![p] = u]
    /\ pc' = [pc EXCEPT ![p] = "g_store"]
    /\ UNCHANGED <<clock, limVars, waitLocals, obsVars>>
    /\ UNCHANGED <<UserCache, PersistentCache, users, userID, gret, ret,
                   completed, after, crashed>>

\* the mutant does not remember the placeholder of a failed lookup
GStoreNoPlaceholder(p) ==
    /\ pc[p] = "g_store"
    /\ IF user[p].ok
       THEN /\ UserCache' = MapSet(UserCache, user[p].ID, user[p].Name)
            /\ IF PersistentCache
               THEN /\ pc' = [pc EXCEPT ![p] = "g_set"]
                    /\ UNCHANGED <<userID, user, gret, ret, completed, after>>
               ELSE Return(p, user[p].Name, FALSE)
       ELSE /\ UserCache' = UserCache
            /\ Return(p, Placeholder(userID[p]), TRUE)
    /\ UNCHANGED <<clock, limVars, waitLocals, obsVars>>
    /\ UNCHANGED <<PersistentCache, users, crashed>>

\* the mutant writes the placeholder of a failed lookup to the durable table too
GStorePoison(p) ==
    /\ pc[p] = "g_store"
    /\ IF user[p].ok
       THEN /\ UserCache' = MapSet(UserCache, user[p].ID, user[p].Name)
            /\ users' = users
            /\ IF PersistentCache
               THEN /\ pc' = [pc EXCEPT ![p] = "g_set"]
                    /\ UNCHANGED <<userID, user, gret, ret, completed, after>>
               ELSE Return(p, user[p].Name, FALSE)
       ELSE /\ UserCache' = MapSet(UserCache, userID[p], Placeholder(userID[p]))
            /\ users' = IF PersistentCache
                        THEN Set(userID[p], Placeholder(userID[p]))
                        ELSE users
            /\ Return(p, Placeholder(userID[p]), TRUE)
    /\ UNCHANGED <<clock, limVars, waitLocals, obsVars>>
    /\ UNCHANGED <<PersistentCache, crashed>>

\* if err == nil { s.UserCache[user.ID] = user.Name; if s.PersistentCache != nil ...
\* else: placeholderName := ...; s.UserCache[userID] = placeholderName;
\* return placeholderName, err
GStore(p) ==
    /\ pc[p] = "g_store"
    /\ IF user[p].ok
       THEN /\ UserCache' = MapSet(UserCache, user[p].ID, user[p].Name)
            /\ IF PersistentCache
               THEN /\ pc' = [pc EXCEPT ![p] = "g_set"]
                    /\ UNCHANGED <<userID, user, gret, ret, completed, after>>
               ELSE Return(p, user[p].Name, FALSE)
       ELSE /\ UserCache' = MapSet(UserCache, userID[p], Placeholder(userID[p]))
            /\ Return(p, Placeholder(userID[p]), TRUE)
    /\ UNCHANGED <<clock, limVars, waitLocals, obsVars>>
    /\ UNCHANGED <<PersistentCache, users, crashed>>

\* s.PersistentCache.Set(user.ID, user.Name); return user.Name, nil
GSet(p) ==
    /\ pc[p] = "g_set"
    /\ users' = Set(user[p].ID, user[p].Name)
    /\ Return(p, user[p].Name, FALSE)
    /\ UNCHANGED <<clock, limVars, waitLocals, obsVars>>
    /\ UNCHANGED <<UserCache, PersistentCache, crashed>>

\* the caller is positioned at a write of s.UserCache / at any access of it
MapWriter(p) == pc[p] \in {"g_fill", "g_store"}
MapAccessor(p) == pc[p] \in {"g_mem", "g_fill", "g_store"}

\* two goroutines at the map at once, one of them writing: nothing orders them
MapRace == \E p, q \in Procs : p # q /\ MapWriter(p) /\ MapAccessor(q)

\* the Go runtime detects the concurrent map access and ends the process
MapFault ==
    /\ MapRace
    /\ ~crashed
    /\ crashed' = TRUE
    /\ UNCHANGED <<clock, limVars, pc, waitLocals, obsVars>>
    /\ UNCHANGED <<UserCache, PersistentCache, users, userID, user, gret, ret,
                   completed, after>>

\* ------------------------------------------------- conversations
\* a slack.Channel as the remote service answers it (the fields the code reads)
Raw(id, name, isChannel, isGroup, isMpIM, isIM, isMember, isOpen, usr, unread) ==
    [ID |-> id, Name |-> name, IsChannel |-> isChannel, IsGroup |-> isGroup,
     IsMpIM |-> isMpIM, IsIM |-> isIM, IsMember |-> isMember, IsOpen |-> isOpen,
     User |-> usr, UnreadCount |-> unread]

general == Raw("C1", "general", TRUE, FALSE, FALSE, FALSE, TRUE, FALSE, "", 0)
random == Raw("C2", "random", TRUE, FALSE, FALSE, FALSE, TRUE, FALSE, "", 1)
lurk == Raw("C3", "lurk", TRUE, FALSE, FALSE, FALSE, FALSE, FALSE, "", 0)
ops == Raw("G1", "ops", FALSE, TRUE, FALSE, FALSE, TRUE, FALSE, "", 0)
trio == Raw("G2", "trio", FALSE, TRUE, TRUE, FALSE, TRUE, TRUE, "", 0)
dmAlice == Raw("D1", "", FALSE, FALSE, FALSE, TRUE, FALSE, TRUE, "U1", 1)
dmGhost == Raw("D2", "", FALSE, FALSE, FALSE, TRUE, FALSE, TRUE, "U999", 0)
\* a conversation the remote service flags both as channel and as group, and a
\* second group by the name of ops
hybrid == Raw("C4", "hybrid", TRUE, TRUE, FALSE, FALSE, TRUE, FALSE, "", 0)
opsTwin == Raw("G3", "ops", FALSE, TRUE, FALSE, FALSE, TRUE, FALSE, "", 0)
\* a second direct conversation with U1, carrying a raw name and no unread
\* message
dmAliceOld == Raw("D3", "rawname", FALSE, FALSE, FALSE, TRUE, FALSE, TRUE, "U1", 0)
\* a multi-party conversation that is not open
huddle == Raw("G4", "huddle", FALSE, TRUE, TRUE, FALSE, TRUE, FALSE, "", 0)

\* what the remote service holds, cut into the pages it answers with
Workspaces ==
    { << <<general>> >>,
      << <<random, dmAlice>>, <<general, ops>> >>,
      << <<trio, lurk>>, <<dmGhost>>, <<general>> >>,
      << <<ops, hybrid>>, <<opsTwin>> >>,
      << <<huddle, trio>> >>,
      << <<dmAlice, random>>, <<dmAliceOld>> >> }

\* the display names in play, in the byte order Go's < on strings gives them
NameOrder ==
    << "", "al", "alice", "general", "huddle", "hybrid", "lurk", "ops", "random", "trio",
       "unknown (U1)", "unknown (U999)", "zed" >>

Rank(name) == CHOOSE i \in 1..Len(NameOrder) : NameOrder[i] = name

\* tcArr[i].channelItem.Name < tcArr[j].channelItem.Name
Less(a, b) == Rank(a) < Rank(b)

\* the mutant asks for public channels whatever includePublic says
convTypesAlwaysPublic(pub) ==
    <<"public_channel">> \o <<"private_channel", "im", "mpim">>

\* convTypes := []string{"private_channel", "im", "mpim"};
\* if includePublic { convTypes = append([]string{"public_channel"}, convTypes...) }
convTypes(pub) ==
    IF pub
    THEN <<"public_channel">> \o <<"private_channel", "im", "mpim">>
    ELSE <<"private_channel", "im", "mpim">>

\* the type under which the remote service lists a conversation
ConvType(c) ==
    IF c.IsIM THEN "im"
    ELSE IF c.IsMpIM THEN "mpim"
    ELSE IF c.IsChannel THEN "public_channel"
    ELSE "private_channel"

\* GetConversations(params): the remote service answers the conversations of
\* page k that are of one of the types in params.Types
Page(k, pub) ==
    LET types == convTypes(pub) IN
    SelectSeq(remote[k],
              LAMBDA c : \E t \in 1..Len(types) : types[t] = ConvType(c))

\* the cursor the response to page k carries: "" (0) after the last page
Cursor(k) == IF k < Len(remote) THEN k + 1 ELSE 0

\* createChannelItem: the fields the code goes on to read or set
createChannelItem(chn) ==
    [ID |-> chn.ID, Name |-> chn.Name, UserID |-> chn.User, Type |-> "",
     Notification |-> FALSE, Presence |-> ""]

makeBuckets == [k \in 0..3 |-> <<>>]

NoChRet == [chans |-> <<>>, err |-> FALSE, done |-> FALSE]

\* buckets[k][key] = &tempChan{channelItem: item, slackChannel: chn}
Put(b, k, key, item, chn) ==
    [b EXCEPT ![k] = MapSet(b[k], key, [channelItem |-> item, slackChannel |-> chn])]

\* the mutant sets the type and leaves the notification flag alone
TypedNoFlag(item, chn, t) == [item EXCEPT !.Type = t]

\* chanItem.Type = t; if chn.UnreadCount > 0 { chanItem.Notification = true }
Typed(item, chn, t) ==
    [item EXCEPT !.Type = t,
                 !.Notification = item.Notification \/ chn.UnreadCount > 0]

\* sortIntoBuckets up to its IsIM part: the buckets, the chanItem as it stands
\* and whether the function has returned
ChannelPart(b, chn, keep) ==
    LET item == createChannelItem(chn) IN
    IF chn.IsChannel
    THEN IF keep /\ ~chn.IsMember
         THEN [b |-> b, item |-> item, returned |-> TRUE]
         ELSE [b |-> Put(b, 0, chn.ID, Typed(item, chn, "channel"), chn),
               item |-> Typed(item, chn, "channel"), returned |-> FALSE]
    ELSE [b |-> b, item |-> item, returned |-> FALSE]

\* the mutant takes a multi-party conversation for a group like any other
GroupPartNoMpIM(b, chn, keep) ==
    LET c == ChannelPart(b, chn, keep) IN
    IF c.returned \/ ~chn.IsGroup
    THEN c
    ELSE IF keep /\ ~chn.IsMember
         THEN [c EXCEPT !.returned = TRUE]
         ELSE [b |-> Put(c.b, 1, chn.ID, Typed(c.item, chn, "group"), chn),
               item |-> Typed(c.item, chn, "group"), returned |-> FALSE]

GroupPart(b, chn, keep) ==
    LET c == ChannelPart(b, chn, keep) IN
    IF c.returned \/ ~chn.IsGroup
    THEN c
    ELSE IF keep /\ ~chn.IsMember
         THEN [c EXCEPT !.returned = TRUE]
         ELSE IF chn.IsMpIM
              THEN IF ~chn.IsOpen
                   THEN [c EXCEPT !.returned = TRUE]
                   ELSE [b |-> Put(c.b, 2, chn.ID, Typed(c.item, chn, "mpim"), chn),
                         item |-> Typed(c.item, chn, "mpim"), returned |-> FALSE]
              ELSE [b |-> Put(c.b, 1, chn.ID, Typed(c.item, chn, "group"), chn),
                    item |-> Typed(c.item, chn, "group"), returned |-> FALSE]

\* the mutant files a direct message under the conversation identifier
IMPartByChannel(b, item, chn, name, err) ==
    IF err
    THEN b
    ELSE Put(b, 3, chn.ID,
             Typed([item EXCEPT !.Name = name, !.Presence = "away"], chn, "im"),
             chn)

\* the IsIM part once GetUserName has answered (name, err)
IMPart(b, item, chn, name, err) ==
    IF err
    THEN b
    ELSE Put(b, 3, chn.User,
             Typed([item EXCEPT !.Name = name, !.Presence = "away"], chn, "im"),
             chn)

\* the orders sort.Slice may leave a bucket in: the map is ranged over in any
\* order and the sort is not stable, so every order ascending by Name
SortedOrders(m) ==
    LET n == Cardinality(DOMAIN m) IN
    { s \in [1..n -> DOMAIN m] :
        /\ \A i, j \in 1..n : i # j => s[i] # s[j]
        /\ \A i, j \in 1..n :
              i < j => ~Less(m[s[j]].channelItem.Name, m[s[i]].channelItem.Name) }

\* the tempChans of one bucket in the order s
InOrder(m, s) == [i \in 1..Len(s) |-> m[s[i]]]

\* the mutant ranges over the map of buckets without sorting the keys: here
\* the direct messages come out first
AggregationsUnsortedKeys(b) ==
    { InOrder(b[3], s3) \o InOrder(b[0], s0) \o InOrder(b[1], s1) \o InOrder(b[2], s2) :
        s0 \in SortedOrders(b[0]), s1 \in SortedOrders(b[1]),
        s2 \in SortedOrders(b[2]), s3 \in SortedOrders(b[3]) }

\* getSortedChannels after the loop: the buckets by ascending key, each sorted
Aggregations(b) ==
    { InOrder(b[0], s0) \o InOrder(b[1], s1) \o InOrder(b[2], s2) \o InOrder(b[3], s3) :
        s0 \in SortedOrders(b[0]), s1 \in SortedOrders(b[1]),
        s2 \in SortedOrders(b[2]), s3 \in SortedOrders(b[3]) }

\* return (chans, err) from GetChannels; the locals go out of scope
ReturnChannels(p, chans, err) ==
    /\ pc' = [pc EXCEPT ![p] = "idle"]
    /\ chret' = [chret EXCEPT ![p] = [chans |-> chans, err |-> err, done |-> TRUE]]
    /\ slackChans' = [slackChans EXCEPT ![p] = <<>>]
    /\ nextCur' = [nextCur EXCEPT ![p] = 0]
    /\ idx' = [idx EXCEPT ![p] = 0]
    /\ buckets' = [buckets EXCEPT ![p] = makeBuckets]
    /\ UNCHANGED <<remote, IsEnterprise, keepOnlyIsMember, includePublic, loads>>

\* the caller is inside GetChannels, or inside the GetUserName it called
InGetChannels(q) ==
    /\ pc[q] # "idle"
    /\ \/ pc[q] \in {"c_init", "c_page", "c_sort", "c_im", "u_fetch"}
       \/ gret[q] = "c_im"
       \/ wret[q] = "u_fetch"

\* a goroutine calls GetChannels(includePublic), the entry point of a workspace
\* that is not an enterprise one; the program starts a load from
\* one command only (Init's loadChannelsCmd), so loads do not overlap each other
CallGetChannels(p) ==
    /\ pc[p] = "idle"
    /\ ~IsEnterprise
    /\ \A q \in Procs : ~InGetChannels(q)
    /\ loads < MaxLoads
    /\ loads' = loads + 1
    /\ pc' = [pc EXCEPT ![p] = "c_init"]
    /\ \E pub \in BOOLEAN : includePublic' = [includePublic EXCEPT ![p] = pub]
    /\ chret' = [chret EXCEPT ![p] = NoChRet]
    /\ failedAt' = [failedAt EXCEPT ![p] = 0]
    /\ keepOnlyIsMember' = [keepOnlyIsMember EXCEPT ![p] = TRUE]
    /\ UNCHANGED <<remote, IsEnterprise, Conversations, slackChans, nextCur, idx, buckets>>
    /\ UNCHANGED <<clock, limVars, waitLocals, obsVars, idVars>>

\* the mutant hands back the pages fetched so far when a page request fails
FailPagePartial(p, k) ==
    /\ failedAt' = [failedAt EXCEPT ![p] = k]
    /\ Conversations' =
          [i \in 1..Len(slackChans[p]) |-> slackChans[p][i]]
    /\ ReturnChannels(p,
          [i \in 1..Len(slackChans[p]) |-> createChannelItem(slackChans[p][i])],
          TRUE)

\* if err != nil { return nil, err }
FailPage(p, k) ==
    /\ failedAt' = [failedAt EXCEPT ![p] = k]
    /\ Conversations' = Conversations
    /\ ReturnChannels(p, <<>>, TRUE)

\* the mutant pages with an if where the code has a for: one cursor page at most
TakePageOnce(p, k) ==
    /\ slackChans' = [slackChans EXCEPT ![p] = @ \o Page(k, includePublic[p])]
    /\ nextCur' = [nextCur EXCEPT ![p] = Cursor(k)]
    /\ pc' = [pc EXCEPT ![p] = IF Cursor(k) # 0 /\ k = 1 THEN "c_page" ELSE "c_sort"]
    /\ idx' = [idx EXCEPT ![p] = 1]
    /\ buckets' = [buckets EXCEPT ![p] = makeBuckets]
    /\ UNCHANGED <<remote, IsEnterprise, keepOnlyIsMember, Conversations, includePublic, chret, loads, failedAt>>

\* slackChans = append(slackChans, channels...); nextCur = cursor;
\* for nextCur != "" { ... }, else on to getSortedChannels
TakePage(p, k) ==
    /\ slackChans' = [slackChans EXCEPT ![p] = @ \o Page(k, includePublic[p])]
    /\ nextCur' = [nextCur EXCEPT ![p] = Cursor(k)]
    /\ pc' = [pc EXCEPT ![p] = IF Cursor(k) # 0 THEN "c_page" ELSE "c_sort"]
    /\ idx' = [idx EXCEPT ![p] = 1]
    /\ buckets' = [buckets EXCEPT ![p] = makeBuckets]
    /\ UNCHANGED <<remote, IsEnterprise, keepOnlyIsMember, Conversations, includePublic, chret, loads, failedAt>>

\* initChans, initCur, err := s.Client.GetConversations(params)
CInit(p) ==
    /\ pc[p] = "c_init"
    /\ \/ FailPage(p, 1)
       \/ TakePage(p, 1)
    /\ UNCHANGED <<clock, limVars, waitLocals, obsVars, idVars>>

\* params.Cursor = nextCur; channels, cursor, err := s.Client.GetConversations(params)
CPage(p) ==
    /\ pc[p] = "c_page"
    /\ \/ FailPage(p, nextCur[p])
       \/ TakePage(p, nextCur[p])
    /\ UNCHANGED <<clock, limVars, waitLocals, obsVars, idVars>>

\* for _, chn := range slackChans { s.sortIntoBuckets(...) } from position i up
\* to the next conversation whose IsIM part calls GetUserName: the buckets then,
\* and that position (past the end when there is none)
RECURSIVE SortLoop(_, _, _, _)
SortLoop(b, chans, i, keep) ==
    IF i > Len(chans)
    THEN [b |-> b, i |-> i]
    ELSE LET g == GroupPart(b, chans[i], keep) IN
         IF chans[i].IsIM /\ ~g.returned
         THEN [b |-> g.b, i |-> i]
         ELSE SortLoop(g.b, chans, i + 1, keep)

\* channelItems = append(channelItems, tc.channelItem)
ChannelItemsOf(agg) == [i \in 1..Len(agg) |-> agg[i].channelItem]

\* the mutant collects the slack.Channel values in front of the list
SlackChannelsPrepended(agg) ==
    [i \in 1..Len(agg) |-> agg[Len(agg) + 1 - i].slackChannel]

\* slackChannels = append(slackChannels, tc.slackChannel), in the same loop
SlackChannelsOf(agg) == [i \in 1..Len(agg) |-> agg[i].slackChannel]

\* getSortedChannels: the loop over slackChans up to the GetUserName call of an
\* IM; after the loop, the sorted buckets become s.Conversations and the
\* returned items
CSort(p) ==
    /\ pc[p] = "c_sort"
    /\ LET l == SortLoop(buckets[p], slackChans[p], idx[p], keepOnlyIsMember[p]) IN
       IF l.i > Len(slackChans[p])
       THEN /\ \E agg \in Aggregations(l.b) :
                /\ Conversations' = SlackChannelsOf(agg)
                /\ ReturnChannels(p, ChannelItemsOf(agg), FALSE)
                /\ failedAt' = failedAt
            /\ UNCHANGED <<clock, limVars, waitLocals, obsVars, idVars>>
       ELSE /\ buckets' = [buckets EXCEPT ![p] = l.b]
            /\ idx' = [idx EXCEPT ![p] = l.i]
            /\ EnterGetUserName(p, slackChans[p][l.i].User, "c_im")
            /\ UNCHANGED <<UserCache, PersistentCache, users, completed, crashed>>
            /\ UNCHANGED <<clock, limVars, waitLocals, obsVars>>
            /\ UNCHANGED <<remote, IsEnterprise, keepOnlyIsMember, Conversations, includePublic, slackChans, nextCur,
                           chret, loads, failedAt>>

\* name, err := s.GetUserName(chn.User); if err != nil { return }; ...
\* buckets[3][chn.User] = &tempChan{...}
CIm(p) ==
    /\ pc[p] = "c_im"
    /\ LET chn == slackChans[p][idx[p]]
           g == GroupPart(buckets[p], chn, keepOnlyIsMember[p]) IN
        buckets' = [buckets EXCEPT ![p] =
                       IMPart(buckets[p], g.item, chn, ret[p].name, ret[p].err)]
    /\ idx' = [idx EXCEPT ![p] = @ + 1]
    /\ pc' = [pc EXCEPT ![p] = "c_sort"]
    /\ UNCHANGED <<remote, IsEnterprise, keepOnlyIsMember, Conversations, includePublic, slackChans, nextCur, chret,
                   loads, failedAt>>
    /\ UNCHANGED <<clock, limVars, waitLocals, obsVars, idVars>>

\* a goroutine calls GetConversationsForUser (loadChannelsCmd of an enterprise
\* workspace): if s.RateLimiter != nil { s.RateLimiter.Wait() }
CallGetConversationsForUser(p) ==
    /\ pc[p] = "idle"
    /\ IsEnterprise
    /\ \A q \in Procs : ~InGetChannels(q)
    /\ loads < MaxLoads
    /\ loads' = loads + 1
    /\ EnterWait(p, "u_fetch")
    /\ keepOnlyIsMember' = [keepOnlyIsMember EXCEPT ![p] = FALSE]
    /\ chret' = [chret EXCEPT ![p] = NoChRet]
    /\ failedAt' = [failedAt EXCEPT ![p] = 0]
    /\ UNCHANGED <<remote, IsEnterprise, Conversations, includePublic, slackChans, nextCur, idx,
                   buckets>>
    /\ UNCHANGED <<clock, limVars, now, tokensToAdd, wakeAt, admitted, sleeps, idVars>>

\* slackChans, _, err := s.Client.GetConversationsForUser(params), the four
\* types in one request of up to 1000 and the cursor dropped;
\* if err != nil { return nil, err }, else on to getSortedChannels(slackChans, false)
UFetch(p) ==
    /\ pc[p] = "u_fetch"
    /\ \/ FailPage(p, 1)
       \/ /\ slackChans' = [slackChans EXCEPT ![p] = Page(1, TRUE)]
          /\ pc' = [pc EXCEPT ![p] = "c_sort"]
          /\ idx' = [idx EXCEPT ![p] = 1]
          /\ buckets' = [buckets EXCEPT ![p] = makeBuckets]
          /\ UNCHANGED <<remote, IsEnterprise, keepOnlyIsMember, Conversations, includePublic,
                         nextCur, chret, loads, failedAt>>
    /\ UNCHANGED <<clock, limVars, waitLocals, obsVars, idVars>>

\* no conversation load in play
NoChannels ==
    /\ remote = << <<>> >>
    /\ Conversations = <<>>
    /\ includePublic = [p \in Procs |-> FALSE]
    /\ slackChans = [p \in Procs |-> <<>>]
    /\ nextCur = [p \in Procs |-> 0]
    /\ idx = [p \in Procs |-> 0]
    /\ buckets = [p \in Procs |-> makeBuckets]
    /\ chret = [p \in Procs |-> NoChRet]
    /\ keepOnlyIsMember = [p \in Procs |-> TRUE]
    /\ IsEnterprise = FALSE
    /\ loads = 0
    /\ failedAt = [p \in Procs |-> 0]

\* ------------------------------------------------- messages
\* a slack.Message as the remote service answers it: the fields the code reads,
\* with the mention placeholders of Text, the number of parts its attachments
\* give and the identifiers of its files
RawMsg(ts, threadTs, usr, bot, mentions, atts, files) ==
    [Timestamp |-> ts, ThreadTimestamp |-> threadTs, User |-> usr, BotID |-> bot,
     Mentions |-> mentions, Atts |-> atts, Files |-> files]

\* a thread parent with two replies, and a plain message
parent100 == RawMsg("100.000000", "100.000000", "U1", "", <<>>, 0, <<>>)
reply103 == RawMsg("103.000000", "100.000000", "U1", "", <<>>, 0, <<>>)
reply104 == RawMsg("104.000000", "100.000000", "U999", "", <<>>, 0, <<"F1">>)
plain102 == RawMsg("102.000000", "", "U1", "", <<"U999">>, 1, <<"F1", "F2">>)

\* a second thread parent, posted in the same second as the first
parent100b == RawMsg("100.000200", "100.000200", "U1", "", <<>>, 0, <<>>)

\* the history pages the remote service may hold, newest message first
Histories ==
    { <<plain102>>,
      <<plain102, parent100>>,
      <<parent100b, parent100>> }

\* conversations.replies of a thread, in pages: the parent comes with them
ThreadPages(ts) ==
    IF ts = "100.000000"
    THEN << <<parent100, reply103>>, <<reply104>> >>
    ELSE IF ts = "100.000200"
    THEN << <<parent100b>> >>
    ELSE << <<>> >>

\* the cursor the response to page k of a thread carries: "" (0) after the last
ReplyCursor(ts, k) == IF k < Len(ThreadPages(ts)) THEN k + 1 ELSE 0

\* strconv.ParseFloat(ts, 64) cut to an integer by int(f): the seconds of the
\* timestamps in play
Seconds(ts) ==
    CASE ts = "100.000000" -> 100
      [] ts = "100.000200" -> 100
      [] ts = "102.000000" -> 102
      [] ts = "103.000000" -> 103
      [] ts = "104.000000" -> 104
      [] OTHER -> 0

base62Alphabet ==
    << "a", "b", "c", "d", "e", "f", "g", "h", "i", "j", "k", "l", "m",
       "n", "o", "p", "q", "r", "s", "t", "u", "v", "w", "x", "y", "z",
       "A", "B", "C", "D", "E", "F", "G", "H", "I", "J", "K", "L", "M",
       "N", "O", "P", "Q", "R", "S", "T", "U", "V", "W", "X", "Y", "Z",
       "1", "2", "3", "4", "5", "6", "7", "8", "9", "0" >>

\* for input > 0 { hash = string(base62Alphabet[input%62]) + hash; input = input / 62 }
RECURSIVE hashID(_)
hashID(input) ==
    IF input > 0
    THEN hashID(input \div 62) \o base62Alphabet[(input % 62) + 1]
    ELSE ""

\* strconv.Itoa(i) for the attachment indices in play
Itoa(i) == CASE i = 0 -> "0" [] i = 1 -> "1" [] i = 2 -> "2" [] OTHER -> "3"

\* a components.Message: the fields the code sets from the message (the style
\* fields, copied from the configuration, are left out); Mentioned stands for
\* Content: the "@name" the mentions of Text were replaced by
Message(id, name, thread, secs, mentioned, subs) ==
    [ID |-> id, Name |-> name, Thread |-> thread, Time |-> secs,
     Mentioned |-> mentioned, Messages |-> subs]

\* CreateMessageFromAttachments, CreateMessageFromFiles: a message per part,
\* with Content and styles only
PartMessage == Message("", "", "", 0, <<>>, <<>>)

\* for i, a := range atts { msg.Messages[strconv.Itoa(i)] = a }
RECURSIVE WithAttachments(_, _)
WithAttachments(subs, n) ==
    IF n = 0 THEN subs
    ELSE MapSet(WithAttachments(subs, n - 1), Itoa(n - 1), PartMessage)

\* for _, file := range files { msg.Messages[file.ID] = file }: file is the
\* components.Message built by CreateMessageFromFiles, whose ID is not set
RECURSIVE WithFiles(_, _)
WithFiles(subs, n) ==
    IF n = 0 THEN subs
    ELSE MapSet(WithFiles(subs, n - 1), PartMessage.ID, PartMessage)

\* a CreateMessage that files no reply
WithRepliesNone(subs, rs, n) == subs

\* for _, reply := range replies { msg.Messages[reply.ID] = reply }
RECURSIVE WithReplies(_, _, _)
WithReplies(subs, rs, n) ==
    IF n = 0 THEN subs
    ELSE MapSet(WithReplies(subs, rs, n - 1), rs[n].ID, rs[n])

\* message.ThreadTimestamp != "" && message.ThreadTimestamp == message.Timestamp
IsParent(m) == m.ThreadTimestamp # "" /\ m.ThreadTimestamp = m.Timestamp

\* a GetMessages that returns the messages as the history page has them
NotReversed(ms) == ms

\* for i := len(messages) - 1; i >= 0; i-- { messagesReversed = append(...) }
Reversed(ms) == [i \in 1..Len(ms) |-> ms[Len(ms) - i + 1]]

NoMRet == [messages |-> <<>>, threads |-> <<>>, err |-> FALSE, done |-> FALSE]

\* a CreateMessage call in progress: its argument, the name and the mentions
\* resolved so far, and msg once it is built
Frame(raw) ==
    [raw |-> raw, name |-> "", mentioned |-> <<>>, mpos |-> 1, msg |-> PartMessage]

Top(p) == frames[p][Len(frames[p])]

SetTop(p, f) == [frames EXCEPT ![p] = [@ EXCEPT ![Len(@)] = f]]

\* a step of the caller inside GetMessages that calls nothing
MsgLocal(p, next) ==
    /\ pc' = [pc EXCEPT ![p] = next]
    /\ UNCHANGED <<clock, limVars, waitLocals, obsVars, idVars, chVars>>

\* s.GetUserName(id), to come back at position `back`
MsgLookup(p, id, back) ==
    /\ EnterGetUserName(p, id, back)
    /\ UNCHANGED <<UserCache, PersistentCache, users, completed, crashed>>
    /\ UNCHANGED <<clock, limVars, waitLocals, obsVars, chVars>>

\* return (messages, threads, err) from GetMessages; the locals go out of scope
MReturn(p, ms, ts, err) ==
    /\ mret' = [mret EXCEPT ![p] = [messages |-> ms, threads |-> ts, err |-> err,
                                    done |-> TRUE]]
    /\ hpos' = [hpos EXCEPT ![p] = 0]
    /\ messages' = [messages EXCEPT ![p] = <<>>]
    /\ threads' = [threads EXCEPT ![p] = <<>>]
    /\ MsgLocal(p, "idle")
    /\ UNCHANGED <<ThreadCache, history, frames, rmsgs, rcur, rpos, replies,
                   mloads, quota, exited>>

\* the caller is inside GetMessages, or in a call GetMessages made
InGetMessages(q) ==
    /\ pc[q] # "idle"
    /\ \/ pc[q] \in {"m_hist", "m_loop", "cm_named", "cm_parse", "cm_ment",
                     "r_init", "r_page", "r_loop"}
       \/ wret[q] = "m_hist" /\ pc[q] \in {"w_lock", "w_cap", "w_check", "w_take"}
       \/ gret[q] \in {"cm_named", "cm_ment"}

\* a goroutine calls GetMessages(channelID, count, daysToFetch):
\* if s.RateLimiter != nil { s.RateLimiter.Wait() }
CallGetMessages(p) ==
    /\ pc[p] = "idle"
    /\ \A q \in Procs : ~InGetMessages(q)
    /\ mloads < MaxLoads
    /\ mloads' = mloads + 1
    /\ mret' = [mret EXCEPT ![p] = NoMRet]
    /\ EnterWait(p, "m_hist")
    /\ UNCHANGED <<clock, limVars, now, tokensToAdd, wakeAt, admitted, sleeps>>
    /\ UNCHANGED <<idVars, chVars>>
    /\ UNCHANGED <<ThreadCache, history, hpos, messages, threads, frames, rmsgs,
                   rcur, rpos, replies, quota, exited>>

\* history, err := s.Client.GetConversationHistory(&historyParams);
\* if err != nil { return nil, nil, err }
MHistory(p) ==
    /\ pc[p] = "m_hist"
    /\ \/ MReturn(p, <<>>, <<>>, TRUE)
       \/ /\ hpos' = [hpos EXCEPT ![p] = 1]
          /\ messages' = [messages EXCEPT ![p] = <<>>]
          /\ threads' = [threads EXCEPT ![p] = <<>>]
          /\ MsgLocal(p, "m_loop")
          /\ UNCHANGED <<ThreadCache, history, frames, rmsgs, rcur, rpos, replies,
                         mret, mloads, quota, exited>>

\* for _, message := range history.Messages { msg := s.CreateMessage(...) ... };
\* CreateMessage begins with name, err := s.GetUserName(message.User); after
\* the loop the messages are reversed and returned
MLoop(p) ==
    /\ pc[p] = "m_loop"
    /\ IF hpos[p] > Len(history)
       THEN MReturn(p, Reversed(messages[p]), threads[p], FALSE)
       ELSE /\ frames' = [frames EXCEPT ![p] = <<Frame(history[hpos[p]])>>]
            /\ MsgLookup(p, history[hpos[p]].User, "cm_named")
            /\ UNCHANGED <<ThreadCache, history, hpos, messages, threads, rmsgs,
                           rcur, rpos, replies, mret, mloads, quota, exited>>

\* if err != nil && name == "" { name = "unknown bot" or "unknown" }
CmNamed(p) ==
    /\ pc[p] = "cm_named"
    /\ LET f == Top(p)
           name == IF ret[p].err /\ ret[p].name = ""
                   THEN IF f.raw.BotID # "" THEN "unknown bot" ELSE "unknown"
                   ELSE ret[p].name IN
        frames' = SetTop(p, [f EXCEPT !.name = name])
    /\ MsgLocal(p, "cm_parse")
    /\ UNCHANGED <<ThreadCache, history, hpos, messages, threads, rmsgs, rcur,
                   rpos, replies, mret, mloads, quota, exited>>

\* parseMentions: name, _ := s.GetUserName(userID); return "@" + name
CmMention(p) ==
    /\ pc[p] = "cm_ment"
    /\ LET f == Top(p) IN
        frames' = SetTop(p, [f EXCEPT !.mentioned = Append(@, "@" \o ret[p].name),
                                      !.mpos = @ + 1])
    /\ MsgLocal(p, "cm_parse")
    /\ UNCHANGED <<ThreadCache, history, hpos, messages, threads, rmsgs, rcur,
                   rpos, replies, mret, mloads, quota, exited>>

\* return msg from CreateMessage to its caller: the loop of GetMessages
\* (messages = append(messages, msg); a thread item if msg.Thread != "") or the
\* loop of CreateMessageFromReplies (msg.Thread = "  "; replies = append(...))
CmReturn(p, msg) ==
    /\ frames' = [frames EXCEPT ![p] = SubSeq(@, 1, Len(@) - 1)]
    /\ IF Len(frames[p]) = 1
       THEN /\ messages' = [messages EXCEPT ![p] = Append(@, msg)]
            /\ threads' = [threads EXCEPT ![p] =
                             IF msg.Thread # ""
                             THEN Append(@, [ID |-> msg.ID, Name |-> msg.Thread,
                                             Type |-> "group"])
                             ELSE @]
            /\ hpos' = [hpos EXCEPT ![p] = @ + 1]
            /\ MsgLocal(p, "m_loop")
            /\ UNCHANGED <<replies, rpos>>
       ELSE /\ replies' = [replies EXCEPT ![p] =
                             Append(@, [msg EXCEPT !.Thread = "  "])]
            /\ rpos' = [rpos EXCEPT ![p] = @ + 1]
            /\ MsgLocal(p, "r_loop")
            /\ UNCHANGED <<messages, threads, hpos>>
    /\ UNCHANGED <<history, rmsgs, rcur, mret, mloads, quota, exited>>

\* the rest of CreateMessage once the name is known: parseMessage resolves the
\* next mention; when none is left msg is built with its attachments and files,
\* and for a thread parent the alias is cached and the replies are fetched
CmParse(p) ==
    /\ pc[p] = "cm_parse"
    /\ LET f == Top(p)
           raw == f.raw
           threadID == hashID(Seconds(raw.ThreadTimestamp))
           msg == Message(raw.Timestamp, f.name, "", Seconds(raw.Timestamp),
                          f.mentioned,
                          WithFiles(WithAttachments(<<>>, raw.Atts), Len(raw.Files)))
       IN
        IF f.mpos <= Len(raw.Mentions)
        THEN /\ MsgLookup(p, raw.Mentions[f.mpos], "cm_ment")
             /\ UNCHANGED msgVars
        ELSE IF IsParent(raw)
        THEN /\ ThreadCache' = MapSet(ThreadCache, threadID, raw.ThreadTimestamp)
             /\ frames' = SetTop(p, [f EXCEPT !.msg =
                                       [msg EXCEPT !.Thread = threadID \o " "]])
             /\ rmsgs' = [rmsgs EXCEPT ![p] = <<>>]
             /\ rcur' = [rcur EXCEPT ![p] = 1]
             /\ MsgLocal(p, "r_init")
             /\ UNCHANGED <<history, hpos, messages, threads, rpos, replies, mret,
                            mloads, quota, exited>>
        ELSE /\ CmReturn(p, msg)
             /\ UNCHANGED ThreadCache

\* log.Fatal(err): the process exits
Fatal ==
    /\ exited' = TRUE
    /\ UNCHANGED <<clock, limVars, pc, waitLocals, obsVars, idVars, chVars>>
    /\ UNCHANGED <<ThreadCache, history, hpos, messages, threads, frames, rmsgs,
                   rcur, rpos, replies, mret, mloads, quota>>

\* one s.Client.GetConversationReplies of CreateMessageFromReplies, the first
\* or one of the cursor loop: on an error log.Fatal, else msgs = append(...)
\* and nextCur = cursor; after the last page the loop over msgs starts
RFetch(p) ==
    /\ pc[p] \in {"r_init", "r_page"}
    /\ \/ Fatal
       \/ LET ts == Top(p).raw.ThreadTimestamp
              cur == ReplyCursor(ts, rcur[p]) IN
           /\ rmsgs' = [rmsgs EXCEPT ![p] = @ \o ThreadPages(ts)[rcur[p]]]
           /\ rcur' = [rcur EXCEPT ![p] = cur]
           /\ rpos' = [rpos EXCEPT ![p] = 1]
           /\ replies' = [replies EXCEPT ![p] = <<>>]
           /\ MsgLocal(p, IF cur # 0 THEN "r_page" ELSE "r_loop")
           /\ UNCHANGED <<ThreadCache, history, hpos, messages, threads, frames,
                          mret, mloads, quota, exited>>

\* for _, reply := range msgs: the parent is skipped, every other reply goes
\* through CreateMessage; after the loop the replies are returned to the
\* CreateMessage of the parent, which files them under reply.ID and returns
RLoop(p) ==
    /\ pc[p] = "r_loop"
    /\ IF rpos[p] > Len(rmsgs[p])
       THEN LET f == Top(p) IN
             /\ CmReturn(p, [f.msg EXCEPT !.Messages =
                               WithReplies(@, replies[p], Len(replies[p]))])
             /\ UNCHANGED ThreadCache
       ELSE IF IsParent(rmsgs[p][rpos[p]])
       THEN /\ rpos' = [rpos EXCEPT ![p] = @ + 1]
            /\ MsgLocal(p, "r_loop")
            /\ UNCHANGED <<ThreadCache, history, hpos, messages, threads, frames,
                           rmsgs, rcur, replies, mret, mloads, quota, exited>>
       ELSE /\ frames' = [frames EXCEPT ![p] = Append(@, Frame(rmsgs[p][rpos[p]]))]
            /\ MsgLookup(p, rmsgs[p][rpos[p]].User, "cm_named")
            /\ UNCHANGED <<ThreadCache, history, hpos, messages, threads,
                           rmsgs, rcur, rpos, replies, mret, mloads, quota,
                           exited>>

\* no message load in play
NoMessages ==
    /\ ThreadCache = <<>>
    /\ history = <<>>
    /\ hpos = [p \in Procs |-> 0]
    /\ messages = [p \in Procs |-> <<>>]
    /\ threads = [p \in Procs |-> <<>>]
    /\ frames = [p \in Procs |-> <<>>]
    /\ rmsgs = [p \in Procs |-> <<>>]
    /\ rcur = [p \in Procs |-> 0]
    /\ rpos = [p \in Procs |-> 0]
    /\ replies = [p \in Procs |-> <<>>]
    /\ mret = [p \in Procs |-> NoMRet]
    /\ mloads = 0
    /\ quota = [calls |-> MaxCalls, lookups |-> MaxLookups]
    /\ exited = FALSE

\* ------------------------------------------------- the program (bubbletea)
\* a components.ChannelItem of the channel list
Item(id, name, type, usr, presence) ==
    [ID |-> id, Name |-> name, Type |-> type, UserID |-> usr,
     Presence |-> presence, Notification |-> FALSE]

\* the list loadChannelsCmd answers with: a channel, and the direct message
\* with U1, whose presence sortIntoBuckets sets to "away"
LoadedChannels ==
    << Item("C1", "general", "channel", "", ""),
       Item("D1", "alice", "im", "U1", "away") >>

\* the channels a live event may name: C9 is in no list
EventChannels == {"C1", "D1", "C9"}

\* the data of the events RTM.IncomingEvents delivers
RtmEvent(type, channel, usr, presence) ==
    [type |-> type, Channel |-> channel, User |-> usr, Presence |-> presence]

Events ==
    { RtmEvent("message", c, "U1", "") : c \in EventChannels } \cup
    { RtmEvent("presence_change", "", "U1", pr) : pr \in {"active", "away"} } \cup
    { RtmEvent(t, "", "", "") : t \in {"connected", "hello", "error", "other"} }

\* the keys Update tells apart
Keys == {"enter", "j", "k", "i", "esc", "q", "x"}

\* content of loadMessagesCmd: the lines formatted from the messages of the channel
Content(channelID) == "messages of " \o channelID

\* tea.Msg values and tea.Cmd values
Msg(type, key, event, channels, content) ==
    [type |-> type, key |-> key, event |-> event, channels |-> channels,
     content |-> content]

NoEvent == RtmEvent("", "", "", "")
NoMsg == Msg("", "", NoEvent, <<>>, "")
KeyMsg(k) == Msg("KeyMsg", k, NoEvent, <<>>, "")
WindowSizeMsg == Msg("WindowSizeMsg", "", NoEvent, <<>>, "")
channelsLoadedMsg(chs) == Msg("channelsLoadedMsg", "", NoEvent, chs, "")
messagesLoadedMsg(content) == Msg("messagesLoadedMsg", "", NoEvent, <<>>, content)
rtmEventMsg(ev) == Msg("rtmEventMsg", "", ev, <<>>, "")
errMsg == Msg("errMsg", "", NoEvent, <<>>, "")

Cmd(kind, channelID) == [kind |-> kind, channelID |-> channelID]
loadChannelsCmd == Cmd("loadChannels", "")
loadMessagesCmd(channelID) == Cmd("loadMessages", channelID)
listenRTMCmd == Cmd("listenRTM", "")
Quit == Cmd("quit", "")

\* initialModel: channels and chat are nil until the first WindowSizeMsg
initialModel ==
    [ready |-> FALSE, mode |-> "COMMAND",
     channels |-> [nil |-> TRUE, items |-> <<>>, index |-> 0],
     chat |-> [nil |-> TRUE, content |-> ""],
     pendingChannels |-> <<>>, pendingMessages |-> "", err |-> FALSE]

\* Channels.SetChannels: list.SetItems keeps the cursor, within the items
SetChannels(c, chs) ==
    [c EXCEPT !.items = chs,
              !.index = IF @ >= Len(chs) /\ Len(chs) > 0 THEN Len(chs) - 1
                        ELSE IF Len(chs) = 0 THEN 0 ELSE @]

\* Channels.SelectedChannel: the item under the cursor, or nil (ID "")
SelectedChannel(c) ==
    IF c.index < Len(c.items) THEN c.items[c.index + 1]
    ELSE Item("", "", "", "", "")

\* list.Update of a key: "j" moves the cursor down, "k" up, within the items
CursorMove(c, k) ==
    [c EXCEPT !.index = IF k = "j"
                        THEN IF @ + 1 < Len(c.items) THEN @ + 1 ELSE @
                        ELSE IF @ > 0 THEN @ - 1 ELSE @]

\* what a call of Update gives: the model, the commands, or a panic
Out(md, cmdBatch) == [m |-> md, cmds |-> cmdBatch, panic |-> FALSE]
NilPanic(md) == [m |-> md, cmds |-> <<>>, panic |-> TRUE]

\* case tea.KeyMsg
UpdateKey(md, k) ==
    IF md.mode = "INSERT"
    THEN IF k = "esc" THEN Out([md EXCEPT !.mode = "COMMAND"], <<>>)
         ELSE Out(md, <<>>)
    ELSE CASE k = "q" -> Out(md, <<Quit>>)
           [] k = "i" -> Out([md EXCEPT !.mode = "INSERT"], <<>>)
           [] k = "enter" ->
                IF md.channels.nil THEN NilPanic(md)
                ELSE IF SelectedChannel(md.channels).ID # ""
                THEN Out(md, <<loadMessagesCmd(SelectedChannel(md.channels).ID)>>)
                ELSE Out(md, <<>>)
           [] k \in {"j", "k"} ->
                IF md.channels.nil THEN NilPanic(md)
                ELSE Out([md EXCEPT !.channels = CursorMove(@, k)], <<>>)
           [] OTHER -> Out(md, <<>>)

\* the mutant creates the components and leaves the pending data where it is
UpdateWindowSizeNoPending(md) ==
    IF ~md.ready
    THEN Out([md EXCEPT !.ready = TRUE,
                        !.channels = [nil |-> FALSE, items |-> <<>>, index |-> 0],
                        !.chat = [nil |-> FALSE, content |-> ""]], <<>>)
    ELSE Out(md, <<>>)

\* case tea.WindowSizeMsg: the first one creates the components and applies
\* the pending data
UpdateWindowSize(md) ==
    IF ~md.ready
    THEN LET c0 == [nil |-> FALSE, items |-> <<>>, index |-> 0]
             c1 == IF Len(md.pendingChannels) > 0
                   THEN SetChannels(c0, md.pendingChannels) ELSE c0 IN
         Out([md EXCEPT !.ready = TRUE,
                        !.channels = c1,
                        !.chat = [nil |-> FALSE, content |-> md.pendingMessages],
                        !.pendingChannels = <<>>,
                        !.pendingMessages = ""], <<>>)
    ELSE Out(md, <<>>)

\* case channelsLoadedMsg
UpdateChannelsLoaded(md, chs) ==
    IF md.ready
    THEN Out([md EXCEPT !.channels = SetChannels(@, chs)], <<>>)
    ELSE Out([md EXCEPT !.pendingChannels = chs], <<>>)

\* case messagesLoadedMsg
UpdateMessagesLoaded(md, content) ==
    IF md.ready
    THEN Out([md EXCEPT !.chat = [@ EXCEPT !.content = content]], <<>>)
    ELSE Out([md EXCEPT !.pendingMessages = content], <<>>)

\* the mutant reloads on every new-message event
handleRTMEventAlwaysReload(md, ev) ==
    IF ev.type = "message"
    THEN IF md.channels.nil THEN NilPanic(md)
         ELSE Out(md, <<loadMessagesCmd(ev.Channel)>>)
    ELSE Out(md, <<>>)

\* handleRTMEvent: a message event for the selected channel reloads it; the
\* other cases log only (marking a channel unread and updating the presence
\* are TODO)
handleRTMEvent(md, ev) ==
    IF ev.type = "message"
    THEN IF md.channels.nil THEN NilPanic(md)
         ELSE IF SelectedChannel(md.channels).ID # ""
                 /\ ev.Channel = SelectedChannel(md.channels).ID
         THEN Out(md, <<loadMessagesCmd(ev.Channel)>>)
         ELSE Out(md, <<>>)
    ELSE Out(md, <<>>)

\* case rtmEventMsg: cmd := m.handleRTMEvent(msg.event);
\* return m, tea.Batch(cmd, listenRTMCmd(m.ctx))
UpdateRtm(md, ev) ==
    LET h == handleRTMEvent(md, ev) IN
    IF h.panic THEN h ELSE Out(h.m, h.cmds \o <<listenRTMCmd>>)

\* model.Update
Update(md, msg) ==
    CASE msg.type = "KeyMsg" -> UpdateKey(md, msg.key)
      [] msg.type = "WindowSizeMsg" -> UpdateWindowSize(md)
      [] msg.type = "channelsLoadedMsg" -> UpdateChannelsLoaded(md, msg.channels)
      [] msg.type = "messagesLoadedMsg" -> UpdateMessagesLoaded(md, msg.content)
      [] msg.type = "rtmEventMsg" -> UpdateRtm(md, msg.event)
      [] msg.type = "errMsg" -> Out([md EXCEPT !.err = TRUE], <<>>)
      [] OTHER -> Out(md, <<>>)

\* the commands the program can have running
AllCmds ==
    {loadChannelsCmd, listenRTMCmd} \cup { loadMessagesCmd(c) : c \in EventChannels }

\* the runtime starts the commands of a batch, each in its goroutine
RECURSIVE Start(_, _, _)
Start(running, cmdBatch, n) ==
    IF n = 0 THEN running
    ELSE LET r == Start(running, cmdBatch, n - 1) IN
         IF cmdBatch[n] \in AllCmds
         THEN [r EXCEPT ![cmdBatch[n]] = @ + 1]
         ELSE r

\* the command ended and its goroutine is gone
Ended(running, cmd) == [running EXCEPT ![cmd] = @ - 1]

\* no parseMessage call in play
NoText == text = [Emoji |-> FALSE, raw |-> <<>>, msg |-> <<>>, at |-> "done",
                  stages |-> <<>>]

\* no program in play
NoUI ==
    /\ model = initialModel
    /\ prog = [running |-> [c \in AllCmds |-> 0], msg |-> NoMsg, cmds |-> <<>>,
               quit |-> FALSE, panicked |-> FALSE, keys |-> 0, events |-> 0]

\* the program runs
Running == ~prog.quit /\ ~prog.panicked

\* the event loop hands msg to Update and starts the commands it returns; a
\* panic in Update ends the program
Deliver(msg, running, keys, events) ==
    LET o == Update(model, msg) IN
    /\ Running
    /\ model' = o.m
    /\ prog' = [running |-> Start(running, o.cmds, Len(o.cmds)),
                msg |-> msg,
                cmds |-> o.cmds,
                quit |-> \E i \in 1..Len(o.cmds) : o.cmds[i] = Quit,
                panicked |-> o.panic,
                keys |-> keys,
                events |-> events]
    /\ UNCHANGED <<clock, limVars, pc, waitLocals, obsVars, idVars, chVars, msgVars>>

\* the user presses a key
KeyPress ==
    /\ prog.keys < MaxKeys
    /\ \E k \in Keys : Deliver(KeyMsg(k), prog.running, prog.keys + 1, prog.events)

\* the terminal reports its size, first at the start of the program
Resize ==
    /\ Running
    /\ Deliver(WindowSizeMsg, prog.running, prog.keys, prog.events)

\* loadChannelsCmd ends: the list, or the error of the service
ChannelsDone ==
    /\ prog.running[loadChannelsCmd] > 0
    /\ \E msg \in {channelsLoadedMsg(LoadedChannels), errMsg} :
          Deliver(msg, Ended(prog.running, loadChannelsCmd), prog.keys, prog.events)

\* a loadMessagesCmd ends: the content of its channel, or the error of the service
MessagesDone ==
    \E c \in EventChannels :
        /\ prog.running[loadMessagesCmd(c)] > 0
        /\ \E msg \in {messagesLoadedMsg(Content(c)), errMsg} :
              Deliver(msg, Ended(prog.running, loadMessagesCmd(c)), prog.keys,
                      prog.events)

\* listenRTMCmd ends: rtmEvent := <-ctx.Service.RTM.IncomingEvents
RtmDeliver ==
    /\ prog.running[listenRTMCmd] > 0
    /\ prog.events < MaxEvents
    /\ \E ev \in Events :
          Deliver(rtmEventMsg(ev), Ended(prog.running, listenRTMCmd), prog.keys,
                  prog.events + 1)

InitIdentityCallers ==
    /\ userID = [p \in Procs |-> ""]
    /\ user = [p \in Procs |-> NoUser]
    /\ gret = [p \in Procs |-> "idle"]
    /\ ret = [p \in Procs |-> NoRet]
    /\ after = [p \in Procs |-> FALSE]
    /\ completed = {}
    /\ crashed = FALSE

\* no identity cache in play
NoIdentity ==
    /\ UserCache = <<>>
    /\ PersistentCache = FALSE
    /\ users = <<>>

\* the table as NewUserCache finds it: empty (created), or with the rows an
\* earlier run left: one exactly TTL old, one older
EarlierRows ==
    { <<>>,
      [u \in UserIDs |-> [username |-> EarlierName[u],
                          updated_at |-> IF u = "U1" THEN BootUnix - TTL
                                                     ELSE BootUnix - TTL - 1]] }

\* NewSlackService: an empty in-process map; NewUserCache opened the table, or
\* failed (PersistentCache stays nil); NewRateLimiter
InitIdentity ==
    /\ clock = 0
    /\ NewRateLimiter(BucketSize, 1)
    /\ InitCallers
    /\ InitIdentityCallers
    /\ UserCache = <<>>
    /\ \/ PersistentCache = TRUE /\ users \in EarlierRows
       \/ PersistentCache = FALSE /\ users = <<>>
    /\ NoChannels
    /\ NoMessages
    /\ NoUI
    /\ NoText

\* the bucket of BucketSize tokens never runs dry within MaxLookups lookups, so
\* no caller reaches the sleep of Wait here
NextIdentity ==
    \/ \E p \in Procs : ~crashed /\ CallGetUserName(p) /\ UNCHANGED chVars /\ UNCHANGED msgVars /\ UNCHANGED uiVars /\ UNCHANGED txtVars
    \/ \E p \in Procs : ~crashed /\ GMem(p) /\ UNCHANGED chVars /\ UNCHANGED msgVars /\ UNCHANGED uiVars /\ UNCHANGED txtVars
    \/ \E p \in Procs : ~crashed /\ GPersist(p) /\ UNCHANGED chVars /\ UNCHANGED msgVars /\ UNCHANGED uiVars /\ UNCHANGED txtVars
    \/ \E p \in Procs : ~crashed /\ GFill(p) /\ UNCHANGED chVars /\ UNCHANGED msgVars /\ UNCHANGED uiVars /\ UNCHANGED txtVars
    \/ \E p \in Procs : ~crashed /\ GRemote(p) /\ UNCHANGED chVars /\ UNCHANGED msgVars /\ UNCHANGED uiVars /\ UNCHANGED txtVars
    \/ \E p \in Procs : ~crashed /\ GStore(p) /\ UNCHANGED chVars /\ UNCHANGED msgVars /\ UNCHANGED uiVars /\ UNCHANGED txtVars
    \/ \E p \in Procs : ~crashed /\ GSet(p) /\ UNCHANGED chVars /\ UNCHANGED msgVars /\ UNCHANGED uiVars /\ UNCHANGED txtVars
    \/ \E p \in Procs : ~crashed /\ WaitLock(p) /\ UNCHANGED idVars /\ UNCHANGED chVars /\ UNCHANGED msgVars /\ UNCHANGED uiVars /\ UNCHANGED txtVars
    \/ \E p \in Procs : ~crashed /\ WaitCap(p) /\ UNCHANGED idVars /\ UNCHANGED chVars /\ UNCHANGED msgVars /\ UNCHANGED uiVars /\ UNCHANGED txtVars
    \/ \E p \in Procs : ~crashed /\ WaitCheck(p) /\ UNCHANGED idVars /\ UNCHANGED chVars /\ UNCHANGED msgVars /\ UNCHANGED uiVars /\ UNCHANGED txtVars
    \/ \E p \in Procs : ~crashed /\ WaitTake(p) /\ UNCHANGED idVars /\ UNCHANGED chVars /\ UNCHANGED msgVars /\ UNCHANGED uiVars /\ UNCHANGED txtVars
    \/ ~crashed /\ Tick /\ UNCHANGED idVars /\ UNCHANGED chVars /\ UNCHANGED msgVars /\ UNCHANGED uiVars /\ UNCHANGED txtVars
    \/ MapFault /\ UNCHANGED chVars /\ UNCHANGED msgVars /\ UNCHANGED uiVars /\ UNCHANGED txtVars

SpecIdentity == InitIdentity /\ [][NextIdentity]_vars

\* ------------------------------------------------- loading the conversations
\* NewSlackService, and a remote service holding one of the workspaces; a
\* conversation list an earlier load stored may be there already
InitChannels ==
    /\ clock = 0
    /\ NewRateLimiter(BucketSize, 1)
    /\ InitCallers
    /\ InitIdentityCallers
    /\ UserCache = <<>>
    /\ PersistentCache = TRUE
    /\ users \in EarlierRows
    /\ remote \in Workspaces
    /\ Conversations = <<>>
    /\ includePublic = [p \in Procs |-> FALSE]
    /\ slackChans = [p \in Procs |-> <<>>]
    /\ nextCur = [p \in Procs |-> 0]
    /\ idx = [p \in Procs |-> 0]
    /\ buckets = [p \in Procs |-> makeBuckets]
    /\ chret = [p \in Procs |-> NoChRet]
    /\ keepOnlyIsMember = [p \in Procs |-> TRUE]
    /\ IsEnterprise = FALSE
    /\ loads = 0
    /\ failedAt = [p \in Procs |-> 0]
    /\ NoMessages
    /\ NoUI
    /\ NoText

\* the load on its own: no other command resolves names meanwhile, so the
\* in-process map has one goroutine at it
NextChannels ==
    \/ \E p \in Procs : CallGetChannels(p) /\ UNCHANGED msgVars /\ UNCHANGED uiVars /\ UNCHANGED txtVars
    \/ \E p \in Procs : CInit(p) /\ UNCHANGED msgVars /\ UNCHANGED uiVars /\ UNCHANGED txtVars
    \/ \E p \in Procs : CPage(p) /\ UNCHANGED msgVars /\ UNCHANGED uiVars /\ UNCHANGED txtVars
    \/ \E p \in Procs : CSort(p) /\ UNCHANGED msgVars /\ UNCHANGED uiVars /\ UNCHANGED txtVars
    \/ \E p \in Procs : CIm(p) /\ UNCHANGED msgVars /\ UNCHANGED uiVars /\ UNCHANGED txtVars
    \/ \E p \in Procs : GMem(p) /\ UNCHANGED chVars /\ UNCHANGED msgVars /\ UNCHANGED uiVars /\ UNCHANGED txtVars
    \/ \E p \in Procs : GPersist(p) /\ UNCHANGED chVars /\ UNCHANGED msgVars /\ UNCHANGED uiVars /\ UNCHANGED txtVars
    \/ \E p \in Procs : GFill(p) /\ UNCHANGED chVars /\ UNCHANGED msgVars /\ UNCHANGED uiVars /\ UNCHANGED txtVars
    \/ \E p \in Procs : GRemote(p) /\ UNCHANGED chVars /\ UNCHANGED msgVars /\ UNCHANGED uiVars /\ UNCHANGED txtVars
    \/ \E p \in Procs : GStore(p) /\ UNCHANGED chVars /\ UNCHANGED msgVars /\ UNCHANGED uiVars /\ UNCHANGED txtVars
    \/ \E p \in Procs : GSet(p) /\ UNCHANGED chVars /\ UNCHANGED msgVars /\ UNCHANGED uiVars /\ UNCHANGED txtVars
    \/ \E p \in Procs : WaitLock(p) /\ UNCHANGED idVars /\ UNCHANGED chVars /\ UNCHANGED msgVars /\ UNCHANGED uiVars /\ UNCHANGED txtVars
    \/ \E p \in Procs : WaitCap(p) /\ UNCHANGED idVars /\ UNCHANGED chVars /\ UNCHANGED msgVars /\ UNCHANGED uiVars /\ UNCHANGED txtVars
    \/ \E p \in Procs : WaitCheck(p) /\ UNCHANGED idVars /\ UNCHANGED chVars /\ UNCHANGED msgVars /\ UNCHANGED uiVars /\ UNCHANGED txtVars
    \/ \E p \in Procs : WaitTake(p) /\ UNCHANGED idVars /\ UNCHANGED chVars /\ UNCHANGED msgVars /\ UNCHANGED uiVars /\ UNCHANGED txtVars
    \/ Tick /\ UNCHANGED idVars /\ UNCHANGED chVars /\ UNCHANGED msgVars /\ UNCHANGED uiVars /\ UNCHANGED txtVars

SpecChannels == InitChannels /\ [][NextChannels]_vars

\* the load by either entry point: GetChannels, or GetConversationsForUser of an
\* enterprise workspace
NextConversations ==
    \/ NextChannels
    \/ \E p \in Procs : CallGetConversationsForUser(p) /\ UNCHANGED msgVars /\ UNCHANGED uiVars /\ UNCHANGED txtVars
    \/ \E p \in Procs : UFetch(p) /\ UNCHANGED msgVars /\ UNCHANGED uiVars /\ UNCHANGED txtVars

\* the service of either kind of workspace, over the workspaces of up to two
\* pages
InitConversations ==
    /\ clock = 0
    /\ NewRateLimiter(BucketSize, 1)
    /\ InitCallers
    /\ InitIdentityCallers
    /\ UserCache = <<>>
    /\ PersistentCache = TRUE
    /\ users \in EarlierRows
    /\ remote \in {w \in Workspaces : Len(w) <= 2}
    /\ Conversations = <<>>
    /\ includePublic = [p \in Procs |-> FALSE]
    /\ slackChans = [p \in Procs |-> <<>>]
    /\ nextCur = [p \in Procs |-> 0]
    /\ idx = [p \in Procs |-> 0]
    /\ buckets = [p \in Procs |-> makeBuckets]
    /\ chret = [p \in Procs |-> NoChRet]
    /\ keepOnlyIsMember = [p \in Procs |-> TRUE]
    /\ IsEnterprise \in BOOLEAN
    /\ loads = 0
    /\ failedAt = [p \in Procs |-> 0]
    /\ NoMessages
    /\ NoUI
    /\ NoText

SpecConversations == InitConversations /\ [][NextConversations]_vars

\* ------------------------------------------------- loading the messages
\* the calls of Wait and of GetUserName one load can make: its own Wait, and a
\* lookup for the author of each message and reply and for each mention
CallsPerLoad == 6

\* NewSlackService, and a remote service holding one of the histories
InitMessages ==
    /\ clock = 0
    /\ NewRateLimiter(BucketSize, 1)
    /\ InitCallers
    /\ InitIdentityCallers
    /\ UserCache = <<>>
    /\ PersistentCache = TRUE
    /\ users \in EarlierRows
    /\ NoChannels
    /\ ThreadCache = <<>>
    /\ history \in Histories
    /\ hpos = [p \in Procs |-> 0]
    /\ messages = [p \in Procs |-> <<>>]
    /\ threads = [p \in Procs |-> <<>>]
    /\ frames = [p \in Procs |-> <<>>]
    /\ rmsgs = [p \in Procs |-> <<>>]
    /\ rcur = [p \in Procs |-> 0]
    /\ rpos = [p \in Procs |-> 0]
    /\ replies = [p \in Procs |-> <<>>]
    /\ mret = [p \in Procs |-> NoMRet]
    /\ mloads = 0
    /\ quota = [calls |-> MaxLoads * CallsPerLoad, lookups |-> MaxLoads * CallsPerLoad]
    /\ exited = FALSE
    /\ NoUI
    /\ NoText

\* the loads one after another; once log.Fatal has run nothing runs
NextMessages ==
    \/ \E p \in Procs : ~exited /\ CallGetMessages(p) /\ UNCHANGED uiVars /\ UNCHANGED txtVars
    \/ \E p \in Procs : ~exited /\ MHistory(p) /\ UNCHANGED uiVars /\ UNCHANGED txtVars
    \/ \E p \in Procs : ~exited /\ MLoop(p) /\ UNCHANGED uiVars /\ UNCHANGED txtVars
    \/ \E p \in Procs : ~exited /\ CmNamed(p) /\ UNCHANGED uiVars /\ UNCHANGED txtVars
    \/ \E p \in Procs : ~exited /\ CmMention(p) /\ UNCHANGED uiVars /\ UNCHANGED txtVars
    \/ \E p \in Procs : ~exited /\ CmParse(p) /\ UNCHANGED uiVars /\ UNCHANGED txtVars
    \/ \E p \in Procs : ~exited /\ RFetch(p) /\ UNCHANGED uiVars /\ UNCHANGED txtVars
    \/ \E p \in Procs : ~exited /\ RLoop(p) /\ UNCHANGED uiVars /\ UNCHANGED txtVars
    \/ \E p \in Procs : ~exited /\ GMem(p) /\ UNCHANGED chVars /\ UNCHANGED msgVars /\ UNCHANGED uiVars /\ UNCHANGED txtVars
    \/ \E p \in Procs : ~exited /\ GPersist(p) /\ UNCHANGED chVars /\ UNCHANGED msgVars /\ UNCHANGED uiVars /\ UNCHANGED txtVars
    \/ \E p \in Procs : ~exited /\ GFill(p) /\ UNCHANGED chVars /\ UNCHANGED msgVars /\ UNCHANGED uiVars /\ UNCHANGED txtVars
    \/ \E p \in Procs : ~exited /\ GRemote(p) /\ UNCHANGED chVars /\ UNCHANGED msgVars /\ UNCHANGED uiVars /\ UNCHANGED txtVars
    \/ \E p \in Procs : ~exited /\ GStore(p) /\ UNCHANGED chVars /\ UNCHANGED msgVars /\ UNCHANGED uiVars /\ UNCHANGED txtVars
    \/ \E p \in Procs : ~exited /\ GSet(p) /\ UNCHANGED chVars /\ UNCHANGED msgVars /\ UNCHANGED uiVars /\ UNCHANGED txtVars
    \/ \E p \in Procs : ~exited /\ WaitLock(p) /\ UNCHANGED idVars /\ UNCHANGED chVars /\ UNCHANGED msgVars /\ UNCHANGED uiVars /\ UNCHANGED txtVars
    \/ \E p \in Procs : ~exited /\ WaitCap(p) /\ UNCHANGED idVars /\ UNCHANGED chVars /\ UNCHANGED msgVars /\ UNCHANGED uiVars /\ UNCHANGED txtVars
    \/ \E p \in Procs : ~exited /\ WaitCheck(p) /\ UNCHANGED idVars /\ UNCHANGED chVars /\ UNCHANGED msgVars /\ UNCHANGED uiVars /\ UNCHANGED txtVars
    \/ \E p \in Procs : ~exited /\ WaitTake(p) /\ UNCHANGED idVars /\ UNCHANGED chVars /\ UNCHANGED msgVars /\ UNCHANGED uiVars /\ UNCHANGED txtVars
    \/ ~exited /\ Tick /\ UNCHANGED idVars /\ UNCHANGED chVars /\ UNCHANGED msgVars /\ UNCHANGED uiVars /\ UNCHANGED txtVars

SpecMessages == InitMessages /\ [][NextMessages]_vars

\* ------------------------------------------------- the program on its own
\* tea.NewProgram(initialModel()); Init runs loadChannelsCmd and listenRTMCmd
InitUI ==
    /\ clock = 0
    /\ NewRateLimiter(BucketSize, 1)
    /\ InitCallers
    /\ InitIdentityCallers
    /\ NoIdentity
    /\ NoChannels
    /\ NoMessages
    /\ model = initialModel
    /\ prog = [running |-> Start([c \in AllCmds |-> 0],
                                 <<loadChannelsCmd, listenRTMCmd>>, 2),
               msg |-> NoMsg, cmds |-> <<loadChannelsCmd, listenRTMCmd>>,
               quit |-> FALSE, panicked |-> FALSE, keys |-> 0, events |-> 0]
    /\ NoText

NextUI ==
    \/ KeyPress /\ UNCHANGED txtVars
    \/ Resize /\ UNCHANGED txtVars
    \/ ChannelsDone /\ UNCHANGED txtVars
    \/ MessagesDone /\ UNCHANGED txtVars
    \/ RtmDeliver /\ UNCHANGED txtVars

SpecUI == InitUI /\ [][NextUI]_vars

\* ------------------------------------------------- the limiter on its own
InitLimiter ==
    /\ clock = 0
    /\ \E n \in 1..MaxTokens, r \in 1..MaxRefill : NewRateLimiter(n, r)
    /\ InitCallers
    /\ InitIdentityCallers
    /\ NoIdentity
    /\ NoChannels
    /\ NoMessages
    /\ NoUI
    /\ NoText

NextLimiter ==
    \/ \E p \in Procs : CallWait(p) /\ UNCHANGED idVars /\ UNCHANGED chVars /\ UNCHANGED msgVars /\ UNCHANGED uiVars /\ UNCHANGED txtVars
    \/ \E p \in Procs : WaitStep(p) /\ UNCHANGED idVars /\ UNCHANGED chVars /\ UNCHANGED msgVars /\ UNCHANGED uiVars /\ UNCHANGED txtVars
    \/ Tick /\ UNCHANGED idVars /\ UNCHANGED chVars /\ UNCHANGED msgVars /\ UNCHANGED uiVars /\ UNCHANGED txtVars

SpecLimiter == InitLimiter /\ [][NextLimiter]_vars

\* the Go scheduler runs every runnable goroutine, sync.Mutex hands the lock to a
\* waiter that has been starved (starvation mode), and time advances
FairLimiter ==
    /\ WF_vars(Tick /\ UNCHANGED idVars /\ UNCHANGED chVars /\ UNCHANGED msgVars /\ UNCHANGED uiVars /\ UNCHANGED txtVars)
    /\ \A p \in Procs : SF_vars(WaitStep(p) /\ UNCHANGED idVars /\ UNCHANGED chVars /\ UNCHANGED msgVars /\ UNCHANGED uiVars /\ UNCHANGED txtVars)

\* the progress check starts from the corner configurations of the bucket
InitLimiterCorners ==
    /\ clock = 0
    /\ \E n \in {1, MaxTokens}, r \in {1, MaxRefill} : NewRateLimiter(n, r)
    /\ InitCallers
    /\ InitIdentityCallers
    /\ NoIdentity
    /\ NoChannels
    /\ NoMessages
    /\ NoUI
    /\ NoText

SpecLimiterFair == InitLimiterCorners /\ [][NextLimiter]_vars /\ FairLimiter

\* ================================================================== claims

\* ------------------------------------------------- message text
\* a text is the sequence of its characters; an emoji of the table is one
\* character that is no word character
emojiCode == "U+1F170"

\* the pieces the texts are put together from: the start of a mention
\* placeholder with and without the bar of a display hint, an emoji token, the
\* end of a placeholder, a word, two HTML entities and the tail of one
Pieces ==
    { <<"<", "@", "U", "1", "|">>,
      <<"<", "@", "U", "1">>,
      <<":", "a", ":">>,
      <<">">>,
      <<"b">>,
      <<"&", "l", "t", ";">>,
      <<"&", "a", "m", "p", ";">>,
      <<"l", "t", ";">> }

\* the texts of up to n pieces
RECURSIVE TextsOf(_)
TextsOf(n) ==
    IF n = 0 THEN { <<>> }
    ELSE TextsOf(n - 1) \cup { t \o q : t \in TextsOf(n - 1), q \in Pieces }

\* \w of the regular expressions, over the characters of the texts
WordChars == {"U", "1", "a", "b", "l", "t", "m", "p"}

\* the length of the run of characters of set cs in t from position i
RECURSIVE Run(_, _, _)
Run(t, i, cs) ==
    IF i > Len(t) \/ t[i] \notin cs THEN 0 ELSE 1 + Run(t, i + 1, cs)

\* config.EmojiCodemap: the table has the token :a:
EmojiCodemap == [k \in { <<":", "a", ":">> } |-> <<emojiCode>>]

\* the length of the match of (:\w+:) at position i of t, 0 when there is none
EmojiMatch(t, i) ==
    IF t[i] # ":" THEN 0
    ELSE LET n == Run(t, i + 1, WordChars) IN
         IF n >= 1 /\ i + 1 + n <= Len(t) /\ t[i + 1 + n] = ":" THEN n + 2 ELSE 0

\* r.ReplaceAllStringFunc(msg, ...) of parseEmoji from position i: each match,
\* leftmost first and not overlapping, becomes its code when the table has it
RECURSIVE parseEmoji(_, _)
parseEmoji(t, i) ==
    IF i > Len(t) THEN <<>>
    ELSE LET n == EmojiMatch(t, i) IN
         IF n = 0
         THEN <<t[i]>> \o parseEmoji(t, i + 1)
         ELSE LET str == SubSeq(t, i, i + n - 1) IN
              (IF str \in DOMAIN EmojiCodemap THEN EmojiCodemap[str] ELSE str)
                  \o parseEmoji(t, i + n)

\* the match of \<@(\w+\|*\w+)\> at position i of t: its length (0 when there
\* is none) and the part of the group before the first bar
MentionMatch(t, i) ==
    IF ~(i + 1 <= Len(t) /\ t[i] = "<" /\ t[i + 1] = "@")
    THEN [len |-> 0, userID |-> <<>>]
    ELSE LET n1 == Run(t, i + 2, WordChars)
             bars == Run(t, i + 2 + n1, {"|"})
             n2 == Run(t, i + 2 + n1 + bars, WordChars)
             end == i + 2 + n1 + bars + n2 IN
         IF /\ n1 >= 1
            /\ IF bars = 0 THEN n1 >= 2 ELSE n2 >= 1
            /\ end <= Len(t)
            /\ t[end] = ">"
         THEN [len |-> end - i + 1, userID |-> SubSeq(t, i + 2, i + 1 + n1)]
         ELSE [len |-> 0, userID |-> <<>>]

\* name, _ := s.GetUserName(userID), with U1 in the identity cache as alice and
\* no other user known: the placeholder name
ResolvedName(id) ==
    IF id = <<"U", "1">>
    THEN <<"a", "l", "i", "c", "e">>
    ELSE <<"u", "n", "k", "n", "o", "w", "n", " ", "(">> \o id \o <<")">>

\* r.ReplaceAllStringFunc(msg, ...) of parseMentions from position i: each
\* match becomes "@" + name
RECURSIVE parseMentions(_, _)
parseMentions(t, i) ==
    IF i > Len(t) THEN <<>>
    ELSE LET m == MentionMatch(t, i) IN
         IF m.len = 0
         THEN <<t[i]>> \o parseMentions(t, i + 1)
         ELSE <<"@">> \o ResolvedName(m.userID) \o parseMentions(t, i + m.len)

\* the entities of the texts and the characters they stand for
Entities ==
    [k \in { <<"&", "l", "t", ";">>, <<"&", "g", "t", ";">>,
             <<"&", "a", "m", "p", ";">> } |->
        IF k[2] = "l" THEN "<" ELSE IF k[2] = "g" THEN ">" ELSE "&"]

\* html.UnescapeString(msg) from position i, in one pass: an entity becomes
\* its character and the scan goes on behind it
RECURSIVE UnescapeString(_, _)
UnescapeString(t, i) ==
    IF i > Len(t) THEN <<>>
    ELSE IF \E k \in DOMAIN Entities :
                i + Len(k) - 1 <= Len(t) /\ SubSeq(t, i, i + Len(k) - 1) = k
         THEN LET k == CHOOSE k \in DOMAIN Entities :
                          i + Len(k) - 1 <= Len(t) /\ SubSeq(t, i, i + Len(k) - 1) = k IN
              <<Entities[k]>> \o UnescapeString(t, i + Len(k))
         ELSE <<t[i]>> \o UnescapeString(t, i + 1)

\* if s.Config.Emoji { msg = parseEmoji(msg) }
PmEmoji ==
    /\ text.at = "emoji"
    /\ text' = IF text.Emoji
               THEN [text EXCEPT !.msg = parseEmoji(text.msg, 1),
                                 !.stages = Append(@, "emoji"),
                                 !.at = "mentions"]
               ELSE [text EXCEPT !.at = "mentions"]

\* msg = parseMentions(s, msg)
PmMentions ==
    /\ text.at = "mentions"
    /\ text' = [text EXCEPT !.msg = parseMentions(text.msg, 1),
                            !.stages = Append(@, "mentions"),
                            !.at = "unescape"]

\* msg = html.UnescapeString(msg); return msg
PmUnescape ==
    /\ text.at = "unescape"
    /\ text' = [text EXCEPT !.msg = UnescapeString(text.msg, 1),
                            !.stages = Append(@, "unescape"),
                            !.at = "done"]

\* parseMessage(s, msg) is entered with a text, emoji substitution configured
\* or not
InitText ==
    /\ clock = 0
    /\ NewRateLimiter(BucketSize, 1)
    /\ InitCallers
    /\ InitIdentityCallers
    /\ NoIdentity
    /\ NoChannels
    /\ NoMessages
    /\ NoUI
    /\ \E e \in BOOLEAN, t \in TextsOf(MaxPieces) :
          text = [Emoji |-> e, raw |-> t, msg |-> t, at |-> "emoji", stages |-> <<>>]

NextText ==
    \/ PmEmoji /\ UNCHANGED <<clock, limVars, pc, waitLocals, obsVars, idVars, chVars, msgVars, uiVars>>
    \/ PmMentions /\ UNCHANGED <<clock, limVars, pc, waitLocals, obsVars, idVars, chVars, msgVars, uiVars>>
    \/ PmUnescape /\ UNCHANGED <<clock, limVars, pc, waitLocals, obsVars, idVars, chVars, msgVars, uiVars>>

SpecText == InitText /\ [][NextText]_vars

\* C1: a limiter created with N = maxTokens tokens admits at most N calls before
\* one refill interval has passed, none of the first N calls sleeps, and a call
\* that arrives after the N-th admission is put to sleep: it is not past the
\* sleep (woken, or taking a token) while the interval has not passed.
C1_FirstNThenBlock ==
    clock < refillRate =>
        /\ admitted <= maxTokens
        /\ (started <= maxTokens => sleeps = 0)
        /\ \A p \in Procs : pc[p] # "w_relock"
        /\ (admitted = maxTokens => \A p \in Procs : pc[p] # "w_take")

\* C1 witness: N calls have returned, the (N+1)-th is asleep, no interval elapsed
C1_Witness ==
    /\ clock < refillRate
    /\ admitted = maxTokens
    /\ started = maxTokens + 1
    /\ sleeps = 1
    /\ \E p \in Procs : pc[p] = "w_sleep" /\ wakeAt[p] = clock + refillRate

\* C2: whenever no caller holds the mutex the token count is in [0, maxTokens],
\* and the refill amount a caller computed is never negative.
C2_TokensInRange ==
    /\ mu = 0 => (0 <= tokens /\ tokens <= maxTokens)
    /\ \A p \in Procs : tokensToAdd[p] >= 0

\* C2 witness: a refill that overshot was capped, a token taken, the mutex free,
\* while another caller sleeps
C2_Witness ==
    /\ mu = 0
    /\ lastRefill > 0
    /\ admitted > maxTokens
    /\ tokens = maxTokens - 1
    /\ \E p \in Procs : pc[p] = "w_sleep"

\* C3: every call to Wait returns (under fair scheduling and advancing time), and
\* no call sleeps more than once.
C3_WaitReturns ==
    /\ \A p \in Procs : (pc[p] # "idle") ~> (pc[p] = "idle")
    /\ [](sleeps <= started)

\* C3 witness: two callers found the bucket empty, slept, and every call returned
C3_Witness ==
    /\ sleeps >= 2
    /\ admitted = started
    /\ \A p \in Procs : pc[p] = "idle"

\* a row of the table that is at most seven days old
Fresh(id) ==
    /\ id \in DOMAIN users
    /\ unixNow - users[id].updated_at <= 7 * 24 * 60 * 60

\* C4: GetUserName consults the in-process map, then the durable table, then
\* the limiter and the remote service, in that order, and stops at the first
\* hit: a map hit returns the mapped name with no durable read, no limiter call
\* and no remote call; a fresh durable row is copied into the map and returned
\* with no limiter call and no remote call.
C4_TierOrder ==
    [][\A p \in Procs :
        /\ (pc[p] = "g_mem" /\ pc'[p] # "g_mem") =>
              IF userID[p] \in DOMAIN UserCache
              THEN /\ pc'[p] = gret[p]
                   /\ ret'[p] = [name |-> UserCache[userID[p]], err |-> FALSE]
                   /\ UserCache' = UserCache
                   /\ users' = users
                   /\ started' = started
              ELSE pc'[p] = IF PersistentCache THEN "g_persist" ELSE "w_lock"
        /\ (pc[p] = "g_persist" /\ pc'[p] # "g_persist") =>
              IF Fresh(userID[p])
              THEN /\ pc'[p] = "g_fill"
                   /\ user'[p].Name = users[userID[p]].username
                   /\ started' = started
              ELSE pc'[p] = "w_lock"
        /\ (pc[p] = "g_fill" /\ pc'[p] # "g_fill") =>
              /\ pc'[p] = gret[p]
              /\ userID[p] \in DOMAIN UserCache'
              /\ UserCache'[userID[p]] = user[p].Name
              /\ ret'[p] = [name |-> user[p].Name, err |-> FALSE]
              /\ users' = users
              /\ started' = started
        /\ (pc'[p] = "g_persist" /\ pc[p] # "g_persist") => pc[p] = "g_mem"
        /\ (pc'[p] = "w_lock" /\ pc[p] # "w_lock") => pc[p] \in {"g_mem", "g_persist"}
        /\ (pc'[p] = "g_remote" /\ pc[p] # "g_remote") => pc[p] = "w_take"
    ]_vars

\* C4 witness: a call was answered from the durable table: the row's name is in
\* the map and was returned, and the limiter was never entered
C4_Witness ==
    /\ started = 0
    /\ "U1" \in DOMAIN UserCache
    /\ UserCache["U1"] = "al"
    /\ \E p \in Procs : pc[p] = "idle" /\ ret[p] = [name |-> "al", err |-> FALSE]

\* C5: a GetUserName call that begins after another call for the same id has
\* returned (with a name or with the placeholder of a failed lookup) is answered
\* by the in-process map: it never goes on to the durable table, the limiter or
\* the remote service, so the two calls make at most one remote call.
C5_SecondCallFromMap ==
    \A p \in Procs : after[p] => pc[p] = "g_mem"

\* C5 witness: the second call for U999 returned the remembered placeholder, with
\* no error, after the single remote lookup had failed
C5_Witness ==
    /\ started = 1
    /\ \E p \in Procs :
        /\ pc[p] = "idle"
        /\ ret[p] = [name |-> "unknown (U999)", err |-> FALSE]

\* C6: a durable row more than seven days old is treated like no row: Get
\* answers ("", false) for both, and a call with no in-process entry goes on to
\* the limiter and the remote lookup; a row at most seven days old is a hit
\* that carries the row's name.
C6_StaleIsMiss ==
    /\ [](\A id \in UserIDs :
            /\ Get(id).ok <=> Fresh(id)
            /\ Get(id).ok => Get(id).username = users[id].username
            /\ ~Get(id).ok => Get(id).username = "")
    /\ [][\A p \in Procs :
            (pc[p] = "g_persist" /\ pc'[p] # "g_persist") =>
                IF Fresh(userID[p])
                THEN pc'[p] = "g_fill"
                ELSE pc'[p] = "w_lock" /\ wret'[p] = "g_remote"
       ]_vars

\* C6 witness: the row of U999 is older than seven days and a caller with no
\* in-process entry for U999 is at the remote lookup; the row of U1, exactly
\* seven days old, was served as a hit
C6_Witness ==
    /\ "U999" \in DOMAIN users
    /\ ~Fresh("U999")
    /\ \E p \in Procs : pc[p] = "g_remote" /\ userID[p] = "U999"
    /\ \E q \in Procs : pc[q] = "idle" /\ ret[q] = [name |-> "al", err |-> FALSE]
    /\ unixNow - users["U1"].updated_at = 7 * 24 * 60 * 60

C8_BothTiersHold ==
    [][\A p \in Procs :
        (/\ user[p].ok
         /\ pc[p] \in {"g_store", "g_set"}
         /\ pc'[p] = gret[p]) =>
            /\ ret'[p] = [name |-> user[p].Name, err |-> FALSE]
            /\ userID[p] \in DOMAIN UserCache'
            /\ UserCache'[userID[p]] = user[p].Name
            /\ PersistentCache =>
                  /\ userID[p] \in DOMAIN users'
                  /\ users'[userID[p]] =
                        [username |-> user[p].Name, updated_at |-> BootUnix + clock]
    ]_vars

\* C9: no two GetUserName calls are at the in-process map at the same time with
\* one of them writing it (the accesses are made under a lock).
C9_MapAccessExclusive ==
    ~MapRace

\* C10: when a page request of GetChannels fails, the first or a later one, the
\* call returns the error and no channel list, whatever the pages fetched so
\* far held, and s.Conversations stays as it was; a list is returned, and
\* s.Conversations replaced, only by a call none of whose requests failed.
C10_NoPartialList ==
    /\ [](\A p \in Procs :
            /\ chret[p].err => chret[p].chans = <<>>
            /\ (chret[p].done /\ failedAt[p] # 0) => chret[p].err)
    /\ [][\A p \in Procs :
            /\ (pc[p] \in {"c_init", "c_page"} /\ pc'[p] = "idle") =>
                  /\ chret'[p] = [chans |-> <<>>, err |-> TRUE, done |-> TRUE]
                  /\ Conversations' = Conversations
            /\ Conversations' # Conversations =>
                  \E q \in Procs :
                      /\ pc[q] = "c_sort" /\ pc'[q] = "idle"
                      /\ failedAt'[q] = 0 /\ ~chret'[q].err
       ]_vars

\* C10 witness: a first load stored a list; the next call had fetched a page
\* with conversations when the request for page 2 failed: it returned the error
\* and no list, and the stored list is still there
C10_Witness ==
    /\ loads = 2
    /\ Len(Conversations) > 0
    /\ \E p \in Procs :
        /\ pc[p] = "idle"
        /\ failedAt[p] = 2
        /\ Len(remote[1]) > 0
        /\ chret[p] = [chans |-> <<>>, err |-> TRUE, done |-> TRUE]

\* C11: a caller comes to the point of issuing a GetConversations request (the
\* initial one, or the next cursor page) only by returning from a
\* RateLimiter.Wait call of its own.
C11_FetchOnlyAfterWait ==
    [][\A p \in Procs :
        (/\ pc'[p] \in {"c_init", "c_page"}
         /\ pc[p] # pc'[p] \/ nextCur'[p] # nextCur[p]) =>
            pc[p] = "w_take"
    ]_vars

\* the pages 1..n the remote service answers to a caller, one after the other
RECURSIVE PagesUpTo(_, _)
PagesUpTo(n, pub) == IF n = 0 THEN <<>> ELSE PagesUpTo(n - 1, pub) \o Page(n, pub)

\* C12: GetChannels pages until the cursor is empty: a caller about to request a
\* cursor page holds the non-empty cursor of the previous response and the pages
\* before it in fetch order; its request appends the page of that cursor;
\* classification starts only after the response with the empty cursor, on the
\* concatenation of all pages in fetch order.
C12_PagesUntilEmptyCursor ==
    /\ [](\A p \in Procs :
            /\ pc[p] = "c_page" =>
                  /\ nextCur[p] \in 2..Len(remote)
                  /\ slackChans[p] = PagesUpTo(nextCur[p] - 1, includePublic[p])
            /\ (InGetChannels(p) /\ pc[p] \notin {"c_init", "c_page"}) =>
                  /\ nextCur[p] = 0
                  /\ slackChans[p] = PagesUpTo(Len(remote), includePublic[p]))
    /\ [][\A p \in Procs :
            (pc[p] = "c_page" /\ pc'[p] # "idle" /\ nextCur'[p] # nextCur[p]) =>
                /\ slackChans'[p] = slackChans[p] \o Page(nextCur[p], includePublic[p])
                /\ nextCur'[p] = Cursor(nextCur[p])
                /\ pc'[p] = IF nextCur'[p] = 0 THEN "c_sort" ELSE "c_page"
       ]_vars

\* C12 witness: the three pages of a workspace were fetched and classification
\* has begun on their four conversations, in fetch order
C12_Witness ==
    /\ Len(remote) = 3
    /\ \E p \in Procs :
        /\ pc[p] = "c_sort"
        /\ includePublic[p]
        /\ slackChans[p] = <<trio, lurk, dmGhost, general>>

\* C13: no conversation identifier appears more than once in the list a
\* GetChannels call returns, whatever kind flags the raw conversations carry.
C13_IdentifierOnce ==
    \A p \in Procs :
        \A i, j \in 1..Len(chret[p].chans) :
            i # j => chret[p].chans[i].ID # chret[p].chans[j].ID

\* the bucket of a kind, in the order of makeBuckets
KindRank(t) == CASE t = "channel" -> 0 [] t = "group" -> 1 [] t = "mpim" -> 2
                 [] t = "im" -> 3 [] OTHER -> 4

\* C14: the returned list is the buckets one after the other in the order
\* channels, groups, multi-party, direct: every entry has one of the four kinds
\* and no entry of a later kind precedes an entry of an earlier kind.
C14_BucketOrder ==
    \A p \in Procs :
        /\ \A i \in 1..Len(chret[p].chans) : KindRank(chret[p].chans[i].Type) < 4
        /\ \A i, j \in 1..Len(chret[p].chans) :
              i < j => KindRank(chret[p].chans[i].Type) <= KindRank(chret[p].chans[j].Type)

\* C14 witness: channels general and random, group ops and the direct message
\* with alice, fetched as [random, alice | general, ops], came back as
\* [general, random, ops, alice]
C14_Witness ==
    \E p \in Procs :
        /\ chret[p].done /\ ~chret[p].err
        /\ Len(chret[p].chans) = 4
        /\ [i \in 1..4 |-> chret[p].chans[i].Name] = <<"general", "random", "ops", "alice">>
        /\ [i \in 1..4 |-> chret[p].chans[i].Type] = <<"channel", "channel", "group", "im">>

\* the place of conversation id in the fetch order of a caller
FetchPos(id, pub) ==
    LET all == PagesUpTo(Len(remote), pub) IN
    CHOOSE k \in 1..Len(all) :
        /\ all[k].ID = id
        /\ \A h \in 1..(k - 1) : all[h].ID # id

\* C15: within each bucket of a returned list the entries are in ascending
\* order of display name, and entries of equal display name are in their
\* fetch order.
C15_StableNameOrder ==
    \A p \in Procs :
        \A i, j \in 1..Len(chret[p].chans) :
            LET a == chret[p].chans[i]
                b == chret[p].chans[j] IN
            (i < j /\ a.Type = b.Type) =>
                /\ ~Less(b.Name, a.Name)
                /\ a.Name = b.Name =>
                      FetchPos(a.ID, includePublic[p]) < FetchPos(b.ID, includePublic[p])

\* C16: two GetChannels calls that returned a list for the same raw
\* conversations (the same remote pages, the same includePublic) returned the
\* same entries in the same order.
C16_SameListTwice ==
    \A p, q \in Procs :
        (/\ chret[p].done /\ ~chret[p].err
         /\ chret[q].done /\ ~chret[q].err
         /\ includePublic[p] = includePublic[q]) =>
            chret[p].chans = chret[q].chans

\* the conversations of the remote service that are public channels
PublicIDs ==
    LET all == UNION { { remote[k][i] : i \in 1..Len(remote[k]) } : k \in 1..Len(remote) } IN
    { c.ID : c \in { x \in all : ConvType(x) = "public_channel" } }

\* C17: a GetChannels(false) call is answered private channels, direct messages
\* and multi-party chats only, and no public channel is in the list it
\* returns; a GetChannels(true) call is answered the public channels as well.
C17_PublicOnlyOnRequest ==
    \A p \in Procs :
        /\ ~includePublic[p] =>
              /\ \A i \in 1..Len(slackChans[p]) : slackChans[p][i].ID \notin PublicIDs
              /\ \A i \in 1..Len(chret[p].chans) : chret[p].chans[i].ID \notin PublicIDs
        /\ (includePublic[p] /\ pc[p] = "c_sort") =>
              \A id \in PublicIDs :
                  \E i \in 1..Len(slackChans[p]) : slackChans[p][i].ID = id

\* C17 witness: of [random, alice | general, ops] a GetChannels(false) call
\* returned the group ops and the direct message with alice, and none of the
\* public channels general and random
C17_Witness ==
    /\ PublicIDs = {"C1", "C2"}
    /\ \E p \in Procs :
        /\ ~includePublic[p]
        /\ chret[p].done /\ ~chret[p].err
        /\ Len(chret[p].chans) = 2
        /\ chret[p].chans[1].ID = "G1"
        /\ chret[p].chans[2].ID = "D1"

\* C18: the messages a GetMessages call returns are as many as the history page
\* of the remote service has, in the exact reverse of its order: the item at
\* place i of the page (from 1) is returned at place n + 1 - i.
C18_ExactReverse ==
    \A p \in Procs :
        (mret[p].done /\ ~mret[p].err) =>
            /\ Len(mret[p].messages) = Len(history)
            /\ \A i \in 1..Len(history) :
                  mret[p].messages[Len(history) + 1 - i].ID = history[i].Timestamp

\* C18 witness: of the page [102, 100] a call returned [100, 102]
C18_Witness ==
    \E p \in Procs :
        /\ mret[p].done /\ ~mret[p].err
        /\ Len(history) = 2
        /\ history[1].Timestamp = "102.000000"
        /\ mret[p].messages[1].ID = "100.000000"
        /\ mret[p].messages[2].ID = "102.000000"

\* every reply the pages of a thread hold
RECURSIVE Fetched(_, _)
Fetched(ts, k) ==
    IF k = 0 THEN <<>> ELSE Fetched(ts, k - 1) \o ThreadPages(ts)[k]

\* the places of the thread references a call returned for message id
RefsOf(p, id) == { j \in 1..Len(mret[p].threads) : mret[p].threads[j].ID = id }

\* C19: in what a GetMessages call returns, a history item that is a thread
\* parent (its timestamp non-empty and equal to its thread timestamp) has
\* exactly one thread reference, whose alias is non-empty and in the thread
\* cache, and the sub-messages of its message hold every fetched reply of
\* the thread but not the parent; an item that is no parent has no reference.
C19_ThreadParent ==
    \A p \in Procs :
        (mret[p].done /\ ~mret[p].err) =>
            \A i \in 1..Len(history) :
                LET h == history[i]
                    msg == mret[p].messages[Len(history) + 1 - i]
                    all == Fetched(h.Timestamp, Len(ThreadPages(h.Timestamp))) IN
                IF IsParent(h)
                THEN /\ Cardinality(RefsOf(p, h.Timestamp)) = 1
                     /\ \A j \in RefsOf(p, h.Timestamp) :
                           \E a \in DOMAIN ThreadCache :
                               /\ a # ""
                               /\ mret[p].threads[j].Name = a \o " "
                     /\ \A k \in 1..Len(all) :
                           all[k].Timestamp # h.Timestamp =>
                               /\ all[k].Timestamp \in DOMAIN msg.Messages
                               /\ msg.Messages[all[k].Timestamp].ID = all[k].Timestamp
                     /\ h.Timestamp \notin DOMAIN msg.Messages
                ELSE RefsOf(p, h.Timestamp) = {}

\* C19 witness: a call returned the parent 100.000000 with the reference "bM "
\* and the replies 103 and 104 below it, and 102.000000 with no reference
C19_Witness ==
    \E p \in Procs :
        /\ mret[p].done /\ ~mret[p].err
        /\ Len(mret[p].messages) = 2
        /\ mret[p].messages[1].ID = "100.000000"
        /\ DOMAIN mret[p].messages[1].Messages = {"103.000000", "104.000000"}
        /\ Len(mret[p].threads) = 1
        /\ mret[p].threads[1].ID = "100.000000"
        /\ mret[p].threads[1].Name = "bM "

\* C20: a failed fetch of a thread's replies, on the first page or on a later
\* one, leaves the process running.
C20_RepliesFailureTolerated ==
    [][(\E p \in Procs : pc[p] \in {"r_init", "r_page"}) => ~exited']_vars

\* C21: a failed GetUserName, for the author of a message or for a user it
\* mentions, never fails the building: the call of CreateMessage goes on with
\* the placeholder name, the process stays up and GetMessages reports no error;
\* every message a call returns carries, for its author and for each mention,
\* the name the lookups left in the map, the placeholder after a failure.
C21_PlaceholderNotFailure ==
    /\ [](\A p \in Procs :
            (mret[p].done /\ ~mret[p].err) =>
                \A i \in 1..Len(history) :
                    LET h == history[i]
                        msg == mret[p].messages[Len(history) + 1 - i] IN
                    /\ h.User \in DOMAIN UserCache
                    /\ msg.Name = UserCache[h.User]
                    /\ msg.Name \in {"alice", "al", "zed", "unknown (U1)", "unknown (U999)"}
                    /\ Len(msg.Mentioned) = Len(h.Mentions)
                    /\ \A k \in 1..Len(h.Mentions) :
                          /\ h.Mentions[k] \in DOMAIN UserCache
                          /\ msg.Mentioned[k] = "@" \o UserCache[h.Mentions[k]]
                          /\ msg.Mentioned[k] # "@")
    /\ [][\A p \in Procs :
            (pc[p] \in {"cm_named", "cm_ment"} /\ ret[p].err /\ pc'[p] # pc[p]) =>
                /\ pc'[p] = "cm_parse"
                /\ ~exited'
                /\ ~mret'[p].err
                /\ Len(frames'[p]) = Len(frames[p])
                /\ pc[p] = "cm_named" =>
                      frames'[p][Len(frames[p])].name = "unknown (" \o userID[p] \o ")"]_vars

\* C21 witness: the lookups of U1 and of U999 failed, and the call returned the
\* message 102.000000 of "unknown (U1)" that mentions "@unknown (U999)"
C21_Witness ==
    \E p \in Procs :
        /\ mret[p].done /\ ~mret[p].err
        /\ Len(history) = 1
        /\ mret[p].messages[1].ID = "102.000000"
        /\ mret[p].messages[1].Name = "unknown (U1)"
        /\ mret[p].messages[1].Mentioned = <<"@unknown (U999)">>

\* C22: the alias of a thread is a function of its timestamp that tells
\* threads apart: two thread references a call returns for two distinct
\* thread timestamps carry two distinct aliases.
C22_DistinctAliases ==
    \A p \in Procs :
        \A i, j \in 1..Len(mret[p].threads) :
            mret[p].threads[i].ID # mret[p].threads[j].ID =>
                mret[p].threads[i].Name # mret[p].threads[j].Name

\* the step hands a live event to Update
RtmStep == prog'.events = prog.events + 1

\* the places of the loadMessagesCmd among the commands the last Update returned
LoadsIssued(pr) == { i \in 1..Len(pr.cmds) : pr.cmds[i].kind = "loadMessages" }

\* the places of the channel in the list
PlacesOf(c, channelID) ==
    { i \in 1..Len(c.items) : c.items[i].ID = channelID }

\* C23: after every live event Update receives, of whatever type, a new
\* listenRTMCmd is issued and is running.
C23_ListenAfterEveryEvent ==
    [][RtmStep =>
          /\ \E i \in 1..Len(prog'.cmds) : prog'.cmds[i] = listenRTMCmd
          /\ prog'.running[listenRTMCmd] > 0]_vars

\* C24: a new-message event for the channel under the cursor issues one
\* loadMessagesCmd, for that channel; a new-message event for another channel,
\* and an event of another type, issues none.
C24_ReloadSelectedOnly ==
    [][RtmStep =>
          LET ev == prog'.msg.event
              sel == SelectedChannel(model.channels).ID IN
          IF ev.type = "message" /\ ~model.channels.nil /\ sel # ""
             /\ ev.Channel = sel
          THEN /\ Cardinality(LoadsIssued(prog')) = 1
               /\ \A i \in LoadsIssued(prog') :
                     prog'.cmds[i] = loadMessagesCmd(sel)
               /\ prog'.running[loadMessagesCmd(sel)] =
                     prog.running[loadMessagesCmd(sel)] + 1
          ELSE /\ LoadsIssued(prog') = {}
               /\ \A c \in EventChannels :
                     prog'.running[loadMessagesCmd(c)] =
                        prog.running[loadMessagesCmd(c)]]_vars

\* C24 witness: with general (C1) under the cursor a new-message event for C1
\* issued the reload of C1, next to the new listen command
C24_Witness ==
    /\ prog.msg = rtmEventMsg(RtmEvent("message", "C1", "U1", ""))
    /\ SelectedChannel(model.channels).ID = "C1"
    /\ prog.cmds = <<loadMessagesCmd("C1"), listenRTMCmd>>
    /\ prog.running[loadMessagesCmd("C1")] > 0

\* C25: a new-message event for a channel of the list that is not under the
\* cursor sets the notification flag of that channel, issues no load and
\* leaves the chat pane as it is.
C25_NotifyOtherChannel ==
    [][(/\ RtmStep
        /\ prog'.msg.event.type = "message"
        /\ ~model.channels.nil
        /\ PlacesOf(model.channels, prog'.msg.event.Channel) # {}
        /\ prog'.msg.event.Channel # SelectedChannel(model.channels).ID) =>
          /\ \A i \in PlacesOf(model.channels, prog'.msg.event.Channel) :
                model'.channels.items[i].Notification
          /\ LoadsIssued(prog') = {}
          /\ model'.chat = model.chat]_vars

\* C26: a presence-change event for a user sets the presence of the direct
\* message entry of that user to the presence of the event.
C26_PresenceUpdated ==
    [][(/\ RtmStep
        /\ prog'.msg.event.type = "presence_change"
        /\ ~model.channels.nil) =>
          \A i \in 1..Len(model.channels.items) :
              (/\ model.channels.items[i].Type = "im"
               /\ model.channels.items[i].UserID = prog'.msg.event.User) =>
                  model'.channels.items[i].Presence = prog'.msg.event.Presence]_vars

\* C27: a completed load is applied to the chat pane only when its channel is
\* the one under the cursor: the pane never changes to the messages of a
\* channel other than the selected one.
C27_StaleLoadDiscarded ==
    [][model'.chat.content # model.chat.content =>
          model'.chat.content = Content(SelectedChannel(model'.channels).ID)]_vars

\* C28: a caller that sleeps inside Wait does not hold the mutex, so another
\* caller can lock it meanwhile; and the token count and the refill time are
\* written only by a caller that holds the mutex, the sleeper after it has
\* locked it again.
C28_SleepWithoutMutex ==
    /\ [](\A p \in Procs : pc[p] \in {"w_sleep", "w_relock"} => mu # p)
    /\ [][(tokens' # tokens \/ lastRefill' # lastRefill) =>
             \E p \in Procs :
                 /\ pc'[p] # pc[p]
                 /\ mu = p \/ (mu = 0 /\ mu' = p)]_vars

\* C28 witness: while one caller sleeps ahead of its deadline, another has
\* locked the mutex, found a refilled token and is about to return
C28_Witness ==
    \E p, q \in Procs :
        /\ p # q
        /\ pc[p] = "w_sleep" /\ clock < wakeAt[p]
        /\ pc[q] = "w_take" /\ mu = q /\ tokens > 0
        /\ now[q] > wakeAt[p] - refillRate

\* C29: the calls of Wait that have returned by time t are at most
\* maxTokens + floor(t / refillRate), in every interleaving.
C29_RateBound == admitted <= maxTokens + (clock \div refillRate)

\* the conversations the remote service holds that are multi-party (IsGroup
\* and IsMpIM)
MultiParty ==
    LET all == UNION { { remote[k][i] : i \in 1..Len(remote[k]) } : k \in 1..Len(remote) } IN
    { c \in all : c.IsGroup /\ c.IsMpIM }

\* C30: a multi-party conversation is never put in the group bucket; where it
\* is put in the multi-party bucket it is open and its entry has the type
\* mpim; in the list a GetChannels call returns an open one (of which the
\* user is a member) has the type mpim and one that is not open is missing.
C30_MultiPartyBucket ==
    \A p \in Procs :
        /\ \A c \in MultiParty :
              /\ c.ID \notin DOMAIN buckets[p][1]
              /\ c.ID \in DOMAIN buckets[p][2] =>
                    /\ c.IsOpen
                    /\ buckets[p][2][c.ID].channelItem.Type = "mpim"
        /\ (chret[p].done /\ ~chret[p].err) =>
              \A c \in MultiParty :
                  LET places == { i \in 1..Len(chret[p].chans) :
                                     chret[p].chans[i].ID = c.ID } IN
                  IF c.IsOpen /\ c.IsMember
                  THEN /\ places # {}
                       /\ \A i \in places : chret[p].chans[i].Type = "mpim"
                  ELSE places = {}

\* C30 witness: of [huddle, trio] a call returned trio alone, as mpim
C30_Witness ==
    \E p \in Procs :
        /\ remote = << <<huddle, trio>> >>
        /\ chret[p].done /\ ~chret[p].err
        /\ Len(chret[p].chans) = 1
        /\ chret[p].chans[1].ID = "G2"
        /\ chret[p].chans[1].Type = "mpim"

\* the conversations the remote service holds
RemoteAll ==
    UNION { { remote[k][i] : i \in 1..Len(remote[k]) } : k \in 1..Len(remote) }

\* C31: every direct-message entry of a returned list carries the name
\* GetUserName resolved for its counterpart (the name the in-process map holds
\* for that user), not the raw name of the conversation, and no two
\* direct-message entries have the same counterpart.
C31_DirectByUser ==
    \A p \in Procs :
        \A i \in 1..Len(chret[p].chans) :
            LET e == chret[p].chans[i] IN
            e.Type = "im" =>
                /\ e.UserID \in DOMAIN UserCache
                /\ e.Name = UserCache[e.UserID]
                /\ \A c \in RemoteAll : (c.ID = e.ID /\ c.Name # "") => e.Name # c.Name
                /\ \A j \in 1..Len(chret[p].chans) :
                      (chret[p].chans[j].Type = "im"
                       /\ chret[p].chans[j].UserID = e.UserID) => j = i

\* C31 witness: of the two direct conversations with U1 a call returned one
\* entry, the later one (D3), under the resolved name
C31_Witness ==
    \E p \in Procs :
        /\ remote = << <<dmAlice, random>>, <<dmAliceOld>> >>
        /\ chret[p].done /\ ~chret[p].err
        /\ \E i \in 1..Len(chret[p].chans) :
              /\ chret[p].chans[i].ID = "D3"
              /\ chret[p].chans[i].Name = "alice"
        /\ \A i \in 1..Len(chret[p].chans) : chret[p].chans[i].ID # "D1"

\* C32: the notification flag of every entry of a returned list is true
\* exactly when the unread count of its conversation is above zero.
C32_NotificationIffUnread ==
    \A p \in Procs :
        \A i \in 1..Len(chret[p].chans) :
            \A c \in RemoteAll :
                c.ID = chret[p].chans[i].ID =>
                    (chret[p].chans[i].Notification <=> c.UnreadCount > 0)

\* C32 witness: random (one unread) is flagged, general and ops are not
C32_Witness ==
    \E p \in Procs :
        /\ chret[p].done /\ ~chret[p].err
        /\ Len(chret[p].chans) >= 3
        /\ \E i, j \in 1..Len(chret[p].chans) :
              /\ chret[p].chans[i].ID = "C2" /\ chret[p].chans[i].Notification
              /\ chret[p].chans[j].ID = "G1" /\ ~chret[p].chans[j].Notification

\* C37: when a GetChannels or GetConversationsForUser call returns without an
\* error, s.Conversations and the list it returns have the same length and the
\* same conversation identifier at every index.
C37_ParallelLists ==
    [][\A p \in Procs :
          (~chret[p].done /\ chret'[p].done /\ ~chret'[p].err) =>
              /\ Len(Conversations') = Len(chret'[p].chans)
              /\ \A i \in 1..Len(Conversations') :
                    Conversations'[i].ID = chret'[p].chans[i].ID]_vars

\* C37 witness: a GetConversationsForUser call returned two entries, a channel
\* and a direct message, over the same two conversations
C37_Witness ==
    \E p \in Procs :
        /\ chret[p].done /\ ~chret[p].err
        /\ IsEnterprise /\ ~keepOnlyIsMember[p]
        /\ Len(chret[p].chans) = 2
        /\ Len(Conversations) = 2
        /\ chret[p].chans[1].ID = "C2" /\ Conversations[1].ID = "C2"
        /\ chret[p].chans[2].ID = "D1" /\ Conversations[2].ID = "D1"

\* C33: every sub-message of a message a GetMessages call returns, built by
\* CreateMessage from an item with any mix of attachments, files and replies,
\* has an empty Messages map of its own.
C33_OneLevel ==
    \A p \in Procs :
        (mret[p].done /\ ~mret[p].err) =>
            \A i \in 1..Len(mret[p].messages) :
                \A k \in DOMAIN mret[p].messages[i].Messages :
                    DOMAIN mret[p].messages[i].Messages[k].Messages = {}

\* C34: in what a GetMessages call returns, the message of a history item holds
\* a sub-message under the sequence number of each attachment part and under
\* the identifier of each file, so an item with k files of distinct
\* identifiers has k file sub-messages.
C34_FilesByIdentifier ==
    \A p \in Procs :
        (mret[p].done /\ ~mret[p].err) =>
            \A i \in 1..Len(history) :
                LET h == history[i]
                    msg == mret[p].messages[Len(history) + 1 - i]
                    attKeys == { Itoa(n) : n \in 0..(h.Atts - 1) }
                    fileKeys == { h.Files[n] : n \in 1..Len(h.Files) } IN
                /\ attKeys \subseteq DOMAIN msg.Messages
                /\ fileKeys \subseteq DOMAIN msg.Messages
                /\ Cardinality(DOMAIN msg.Messages \ attKeys) >= Cardinality(fileKeys)

\* C35: parseMessage runs emoji substitution (when configured), mention
\* substitution and HTML unescape once each in that order, and a mention
\* placeholder with a display hint, the hint an emoji token or a word, comes out
\* as @ and the name resolved for its user: the hint is dropped and the emoji
\* token in it is not substituted.
C35_StagesAndMention ==
    text.at = "done" =>
        /\ text.stages = (IF text.Emoji THEN <<"emoji">> ELSE <<>>)
                             \o <<"mentions", "unescape">>
        /\ \A hint \in { <<":", "a", ":">>, <<"b">> } :
              text.raw = <<"<", "@", "U", "1", "|">> \o hint \o <<">">> =>
                  text.msg = <<"@", "a", "l", "i", "c", "e">>

\* C36: every thread reference a GetMessages call returned carries an alias
\* under which the thread cache holds the thread timestamp of that very
\* message, whatever other threads were built.
C36_AliasKeepsThread ==
    \A p \in Procs :
        (mret[p].done /\ ~mret[p].err) =>
            \A j \in 1..Len(mret[p].threads) :
                \E a \in DOMAIN ThreadCache :
                    /\ mret[p].threads[j].Name = a \o " "
                    /\ ThreadCache[a] = mret[p].threads[j].ID

\* C38: while the program has not quit, exactly one listenRTMCmd is
\* outstanding (running, or ended with its rtmEventMsg on the way to Update):
\* never two, never none.
C38_OneListener == ~prog.quit => prog.running[listenRTMCmd] = 1

\* the handlers of Update that read the selected channel: Enter and the
\* navigation keys in command mode, and a live message event
ReadsSelected(md, msg) ==
    \/ msg.type = "KeyMsg" /\ md.mode = "COMMAND" /\ msg.key \in {"enter", "j", "k"}
    \/ msg.type = "rtmEventMsg" /\ msg.event.type = "message"

\* C39: whenever Update runs a handler that reads the selected channel, ready
\* is true and the channels component has been created.
C39_ComponentsBeforeUse ==
    [][ReadsSelected(model, prog'.msg) =>
          model.ready /\ ~model.channels.nil]_vars

\* C40: a channel list or message content Update receives while ready is false
\* is held in its pending slot; the first WindowSizeMsg puts the pending list
\* and the pending content into the components and clears both slots; a result
\* received while ready is true goes into its component at once and leaves
\* the pending slots as they are.
C40_PendingApplied ==
    [][LET msg == prog'.msg IN
       /\ (msg.type = "channelsLoadedMsg" /\ ~model.ready) =>
             /\ model'.pendingChannels = msg.channels
             /\ ~model'.ready
             /\ model'.pendingMessages = model.pendingMessages
       /\ (msg.type = "messagesLoadedMsg" /\ ~model.ready) =>
             /\ model'.pendingMessages = msg.content
             /\ ~model'.ready
             /\ model'.pendingChannels = model.pendingChannels
       /\ (msg.type = "WindowSizeMsg" /\ ~model.ready) =>
             /\ model'.ready
             /\ ~model'.channels.nil /\ ~model'.chat.nil
             /\ model'.channels.items = model.pendingChannels
             /\ model'.chat.content = model.pendingMessages
             /\ model'.pendingChannels = <<>>
             /\ model'.pendingMessages = ""
       /\ (msg.type = "channelsLoadedMsg" /\ model.ready) =>
             /\ model'.channels.items = msg.channels
             /\ model'.pendingChannels = model.pendingChannels
             /\ model'.pendingMessages = model.pendingMessages
       /\ (msg.type = "messagesLoadedMsg" /\ model.ready) =>
             /\ model'.chat.content = msg.content
             /\ model'.pendingChannels = model.pendingChannels
             /\ model'.pendingMessages = model.pendingMessages]_vars

\* C40 witness: the channel list arrived before the first WindowSizeMsg and is
\* held as pending
C40_Witness ==
    /\ ~model.ready
    /\ prog.msg.type = "channelsLoadedMsg"
    /\ model.pendingChannels = LoadedChannels

====
